---- MODULE Spec2Model ----
(***************************************************************************)
(* A model of the GECKO core: the permissive schema-aware parser           *)
(* (SchemaAwareParser.ts, Sanitizer.ts, BlockStarters.ts) and the rule     *)
(* engine (engine/Runner.ts).                                              *)
(*                                                                         *)
(* A JavaScript string is a sequence of one-character strings; a           *)
(* character outside ASCII is written by its code point, "U+00A0".         *)
(***************************************************************************)
EXTENDS Integers, Sequences, FiniteSets, TLC

(***************************************************************************)
(* Bounds of the model                                                     *)
(***************************************************************************)
\* the largest number of lines of a generated configuration text
MaxLines == 3
\* the largest length of a generated rules list
MaxRules == 2
\* the largest length of a generated string of characters
MaxChars == 3

\* the depth of the deepest directory, the root being at depth 0
MaxDepth == 2

\* the largest number of configuration files in the file system
MaxFiles == 2

\* the last instant of the editor's clock, in units of 100 ms
MaxTime == 3

\* the largest number of setTimeout calls
MaxTimers == 3

\* the largest version a scan started by a command may take
MaxScans == 1

\* the largest number of diagnostics a scan of a selection leaves on a document
MaxDiagnostics == 2

(***************************************************************************)
(* Characters and strings                                                  *)
(***************************************************************************)
\* the characters sanitizeText replaces by an ASCII space
UnicodeSpaces ==
    {"U+00A0", "U+2000", "U+2001", "U+2002", "U+2003", "U+2004", "U+2005",
     "U+2006", "U+2007", "U+2008", "U+2009", "U+200A", "U+202F", "U+205F",
     "U+3000"}

\* the characters JavaScript's \s and String.prototype.trim treat as white space
JsWhitespace ==
    UnicodeSpaces \cup {" ", "\t", "\n", "\r", "\f", "U+000B", "U+1680",
                        "U+2028", "U+2029", "U+FEFF"}

\* the characters of \d
Digits == {"0", "1", "2", "3", "4", "5", "6", "7", "8", "9"}

UpperCase == <<"A", "B", "C", "D", "E", "F", "G", "H", "I", "J", "K", "L", "M", "N", "O", "P", "Q", "R", "S", "T", "U", "V", "W", "X", "Y", "Z">>
LowerCase == <<"a", "b", "c", "d", "e", "f", "g", "h", "i", "j", "k", "l", "m", "n", "o", "p", "q", "r", "s", "t", "u", "v", "w", "x", "y", "z">>

\* the lower-case letter of each upper-case letter
LowerOf ==
    [c \in {UpperCase[k] : k \in DOMAIN UpperCase} |->
        LowerCase[CHOOSE k \in DOMAIN UpperCase : UpperCase[k] = c]]

\* String.prototype.toLowerCase, one character
LowerChar(c) == IF c \in DOMAIN LowerOf THEN LowerOf[c] ELSE c

\* String.prototype.toLowerCase
toLowerCase(s) == [k \in DOMAIN s |-> LowerChar(s[k])]

\* String.prototype.startsWith
startsWith(s, prefix) ==
    /\ Len(prefix) <= Len(s)
    /\ \A k \in 1..Len(prefix) : s[k] = prefix[k]

\* String.prototype.trim
RECURSIVE trimStart(_)
trimStart(s) ==
    IF s # <<>> /\ Head(s) \in JsWhitespace THEN trimStart(Tail(s)) ELSE s

RECURSIVE trimEnd(_)
trimEnd(s) ==
    IF s # <<>> /\ s[Len(s)] \in JsWhitespace
    THEN trimEnd(SubSeq(s, 1, Len(s) - 1))
    ELSE s

trim(s) == trimEnd(trimStart(s))

\* configText.split('\n'): the lines of a text, at least one; line k lies
\* between the (k-1)-th and the k-th line feed
split(text) ==
    LET feeds == {i \in DOMAIN text : text[i] = "\n"}
        nth(k) == IF k = 0 THEN 0
                  ELSE IF k > Cardinality(feeds) THEN Len(text) + 1
                  ELSE CHOOSE i \in feeds : Cardinality({j \in feeds : j < i}) = k - 1
    IN  [k \in 1..(Cardinality(feeds) + 1) |-> SubSeq(text, nth(k - 1) + 1, nth(k) - 1)]

\* sanitized.split(/\s+/).filter(p => p.length > 0)
RECURSIVE splitWords(_, _)
splitWords(s, cur) ==
    IF s = <<>> THEN (IF cur = <<>> THEN <<>> ELSE <<cur>>)
    ELSE IF Head(s) \in JsWhitespace
         THEN (IF cur = <<>> THEN <<>> ELSE <<cur>>) \o splitWords(Tail(s), <<>>)
         ELSE splitWords(Tail(s), Append(cur, Head(s)))

RECURSIVE searchNonSpace(_)
\* the indent with a tab expanded to four columns
searchNonSpace_tabExpanded(s) ==
    IF s = <<>> \/ Head(s) \notin JsWhitespace THEN 0
    ELSE (IF Head(s) = "\t" THEN 4 ELSE 1) + searchNonSpace(Tail(s))

\* originalLine.search(/\S|$/): the 0-based index of the first character
\* that is not white space, the length of the line when there is none
searchNonSpace(s) ==
    IF s = <<>> \/ Head(s) \notin JsWhitespace THEN 0
    ELSE 1 + searchNonSpace(Tail(s))

\* the decimal digits of a natural number, as template literals print it
DigitChars == <<"0", "1", "2", "3", "4", "5", "6", "7", "8", "9">>
RECURSIVE numberToString(_)
numberToString(n) ==
    IF n < 10 THEN <<DigitChars[n + 1]>>
    ELSE Append(numberToString(n \div 10), DigitChars[(n % 10) + 1])

(***************************************************************************)
(* Sanitizer.ts                                                            *)
(***************************************************************************)
\* the replacement without the trim
sanitizeText_noTrim(text) ==
    [k \in DOMAIN text |-> IF text[k] \in UnicodeSpaces THEN " " ELSE text[k]]

\* text.replace(/[\u00A0\u2000-\u200A\u202F\u205F\u3000]/g, ' ').trim()
sanitizeText(text) ==
    trim([k \in DOMAIN text |-> IF text[k] \in UnicodeSpaces THEN " " ELSE text[k]])

(***************************************************************************)
(* BlockStarters.ts: anchored, case-insensitive patterns.  A pattern is a  *)
(* sequence of elements: a literal, \s+, \S+, \d+, an alternation of       *)
(* literals, or a negative look-ahead of a literal.  The classes that      *)
(* follow one another are disjoint, so the longest match of a + is the     *)
(* only one that can succeed.                                              *)
(***************************************************************************)
Lit(w)       == [kind |-> "lit", words |-> <<w>>]
Ws           == [kind |-> "ws", words |-> <<>>]
NonWs        == [kind |-> "nonws", words |-> <<>>]
Dig          == [kind |-> "dig", words |-> <<>>]
Alt(ws)      == [kind |-> "alt", words |-> ws]
NotAhead(w)  == [kind |-> "notahead", words |-> <<w>>]

\* the literal w, ignoring case, at position i of s
LitAt(s, i, w) ==
    /\ i + Len(w) - 1 <= Len(s)
    /\ \A k \in 1..Len(w) : LowerChar(s[i + k - 1]) = LowerChar(w[k])

\* the position after the longest run of characters of class cls from i
RECURSIVE SkipClass(_, _, _)
SkipClass(s, i, cls) ==
    IF i <= Len(s) /\ s[i] \in cls THEN SkipClass(s, i + 1, cls) ELSE i

NonWhitespaceOf(s) == {s[k] : k \in DOMAIN s} \ JsWhitespace

\* elements k.. of pattern p match s from position i
RECURSIVE MatchFrom(_, _, _, _)
MatchFrom(p, k, s, i) ==
    IF k > Len(p) THEN TRUE
    ELSE LET e == p[k] IN
      CASE e.kind = "lit" ->
             LitAt(s, i, e.words[1]) /\ MatchFrom(p, k + 1, s, i + Len(e.words[1]))
        [] e.kind = "ws" ->
             LET j == SkipClass(s, i, JsWhitespace)
             IN  j > i /\ MatchFrom(p, k + 1, s, j)
        [] e.kind = "nonws" ->
             LET j == SkipClass(s, i, NonWhitespaceOf(s))
             IN  j > i /\ MatchFrom(p, k + 1, s, j)
        [] e.kind = "dig" ->
             LET j == SkipClass(s, i, Digits)
             IN  j > i /\ MatchFrom(p, k + 1, s, j)
        [] e.kind = "alt" ->
             \E a \in DOMAIN e.words :
                 LitAt(s, i, e.words[a]) /\ MatchFrom(p, k + 1, s, i + Len(e.words[a]))
        [] e.kind = "notahead" ->
             ~LitAt(s, i, e.words[1]) /\ MatchFrom(p, k + 1, s, i)

\* regex.test(line) for an anchored pattern
RegexTest(p, line) == MatchFrom(p, 1, line, 1)

BlockStarters == <<
    <<Lit(<<"i", "n", "t", "e", "r", "f", "a", "c", "e">>), Ws, NonWs>>,
    <<Lit(<<"r", "o", "u", "t", "e", "r">>), Ws, NotAhead(<<"r", "o", "u", "t", "e", "r", "-", "i", "d">>), NonWs>>,
    <<Lit(<<"a", "d", "d", "r", "e", "s", "s", "-", "f", "a", "m", "i", "l", "y">>), Ws, NonWs>>,
    <<Lit(<<"a", "f", "-", "i", "n", "t", "e", "r", "f", "a", "c", "e">>), Ws, NonWs>>,
    <<Lit(<<"t", "o", "p", "o", "l", "o", "g", "y">>), Ws, NonWs>>,
    <<Lit(<<"v", "l", "a", "n">>), Ws, Dig>>,
    <<Lit(<<"s", "p", "a", "n", "n", "i", "n", "g", "-", "t", "r", "e", "e">>), Ws, NonWs>>,
    <<Lit(<<"i", "p">>), Ws, Lit(<<"a", "c", "c", "e", "s", "s", "-", "l", "i", "s", "t">>), Ws, NonWs>>,
    <<Lit(<<"a", "c", "c", "e", "s", "s", "-", "l", "i", "s", "t">>), Ws, NonWs>>,
    <<Lit(<<"i", "p">>), Ws, Lit(<<"p", "r", "e", "f", "i", "x", "-", "l", "i", "s", "t">>), Ws, NonWs>>,
    <<Lit(<<"r", "o", "u", "t", "e", "-", "m", "a", "p">>), Ws, NonWs>>,
    <<Lit(<<"c", "r", "y", "p", "t", "o">>), Ws, Lit(<<"m", "a", "p">>), Ws, NonWs>>,
    <<Lit(<<"c", "r", "y", "p", "t", "o">>), Ws, Lit(<<"i", "s", "a", "k", "m", "p">>), Ws, NonWs>>,
    <<Lit(<<"c", "r", "y", "p", "t", "o">>), Ws, Lit(<<"i", "p", "s", "e", "c">>), Ws, NonWs>>,
    <<Lit(<<"c", "l", "a", "s", "s", "-", "m", "a", "p">>), Ws, NonWs>>,
    <<Lit(<<"p", "o", "l", "i", "c", "y", "-", "m", "a", "p">>), Ws, NonWs>>,
    <<Lit(<<"l", "i", "n", "e">>), Ws, Alt(<<<<"v", "t", "y">>, <<"c", "o", "n", "s", "o", "l", "e">>, <<"a", "u", "x">>>>), Ws, NonWs>>,
    <<Lit(<<"l", "i", "n", "e">>), Ws, Dig>>,
    <<Lit(<<"o", "b", "j", "e", "c", "t", "-", "g", "r", "o", "u", "p">>), Ws, NonWs>>,
    <<Lit(<<"o", "b", "j", "e", "c", "t">>), Ws, NonWs>>,
    <<Lit(<<"a", "a", "a">>), Ws, Lit(<<"g", "r", "o", "u", "p">>), Ws, Lit(<<"s", "e", "r", "v", "e", "r">>), Ws, NonWs>>,
    <<Lit(<<"d", "i", "a", "l", "-", "p", "e", "e", "r">>), Ws, Lit(<<"v", "o", "i", "c", "e">>), Ws, NonWs>>,
    <<Lit(<<"v", "o", "i", "c", "e">>), Ws, Lit(<<"r", "e", "g", "i", "s", "t", "e", "r">>), Ws, NonWs>>,
    <<Lit(<<"t", "e", "l", "e", "p", "h", "o", "n", "y", "-", "s", "e", "r", "v", "i", "c", "e">>)>>,
    <<Lit(<<"e", "p", "h", "o", "n", "e", "-", "d", "n">>), Ws, NonWs>>,
    <<Lit(<<"e", "p", "h", "o", "n", "e">>), Ws, NonWs>>,
    <<Lit(<<"i", "p">>), Ws, Lit(<<"v", "r", "f">>), Ws, NonWs>>,
    <<Lit(<<"v", "r", "f">>), Ws, Lit(<<"d", "e", "f", "i", "n", "i", "t", "i", "o", "n">>), Ws, NonWs>>,
    <<Lit(<<"k", "e", "y">>), Ws, Lit(<<"c", "h", "a", "i", "n">>), Ws, NonWs>>,
    <<Lit(<<"t", "r", "a", "c", "k">>), Ws, Dig>>,
    <<Lit(<<"r", "e", "d", "u", "n", "d", "a", "n", "c", "y">>)>>,
    <<Lit(<<"c", "o", "n", "t", "r", "o", "l", "l", "e", "r">>), Ws, NonWs>>,
    <<Lit(<<"a", "r", "c", "h", "i", "v", "e">>)>>,
    <<Lit(<<"i", "p">>), Ws, Lit(<<"s", "l", "a">>), Ws, Dig>>,
    <<Lit(<<"t", "a", "c", "a", "c", "s">>), Ws, Lit(<<"s", "e", "r", "v", "e", "r">>), Ws, NonWs>>,
    <<Lit(<<"r", "a", "d", "i", "u", "s">>), Ws, Lit(<<"s", "e", "r", "v", "e", "r">>), Ws, NonWs>>,
    <<Lit(<<"s", "n", "m", "p", "-", "s", "e", "r", "v", "e", "r">>), Ws, Lit(<<"v", "i", "e", "w">>), Ws, NonWs>>,
    <<Lit(<<"b", "a", "n", "n", "e", "r">>), Ws, Alt(<<<<"m", "o", "t", "d">>, <<"l", "o", "g", "i", "n">>, <<"e", "x", "e", "c">>>>)>>,
    <<Lit(<<"c", "o", "n", "t", "r", "o", "l", "-", "p", "l", "a", "n", "e">>)>> >>

\* SchemaAwareParser.isSchemaBlockStarter
isSchemaBlockStarter(sanitizedLine) ==
    \E r \in DOMAIN BlockStarters : RegexTest(BlockStarters[r], sanitizedLine)

(***************************************************************************)
(* The inputs: configuration texts                                         *)
(***************************************************************************)
\* the lines a generated text is made of
PoolLines == {
    <<"i", "n", "t", "e", "r", "f", "a", "c", "e", " ", "G", "i", "0", "/", "1">>,
    <<"n", "o", " ", "s", "h", "u", "t", "d", "o", "w", "n">>,
    <<" ", "d", "e", "s", "c", "r", "i", "p", "t", "i", "o", "n", " ", "u", "p", "l", "i", "n", "k">>,
    <<"\t", "\t", "I", "P", " ", "A", "d", "d", "r", "e", "s", "s", " ", "1", ".", "1", ".", "1", ".", "1">>,
    <<"!", " ", "c", "o", "m", "m", "e", "n", "t">>,
    <<"U+00A0", "v", "l", "a", "n", "U+2003", "1", "0", "\r">> }

\* the lines joined by line feeds
RECURSIVE JoinLines(_)
JoinLines(ls) ==
    IF Len(ls) = 0 THEN <<>>
    ELSE IF Len(ls) = 1 THEN ls[1]
    ELSE ls[1] \o <<"\n">> \o JoinLines(Tail(ls))

\* the scenarios S1..S5 of the specification
TextS1 == JoinLines(<<<<"i", "n", "t", "e", "r", "f", "a", "c", "e", " ", "G", "i", "g", "a", "b", "i", "t", "E", "t", "h", "e", "r", "n", "e", "t", "0", "/", "1">>,
                      <<" ", "d", "e", "s", "c", "r", "i", "p", "t", "i", "o", "n", " ", "u", "p", "l", "i", "n", "k">>,
                      <<" ", "i", "p", " ", "a", "d", "d", "r", "e", "s", "s", " ", "1", "0", ".", "0", ".", "0", ".", "1", " ", "2", "5", "5", ".", "2", "5", "5", ".", "2", "5", "5", ".", "0">>>>)
TextS2 == JoinLines(<<<<"i", "n", "t", "e", "r", "f", "a", "c", "e", " ", "G", "i", "0", "/", "1">>,
                      <<"i", "p", " ", "a", "d", "d", "r", "e", "s", "s", " ", "1", "0", ".", "0", ".", "0", ".", "1", " ", "2", "5", "5", ".", "2", "5", "5", ".", "2", "5", "5", ".", "0">>,
                      <<"i", "n", "t", "e", "r", "f", "a", "c", "e", " ", "G", "i", "0", "/", "2">>>>)
TextS3 == JoinLines(<<<<"i", "p", " ", "a", "d", "d", "r", "e", "s", "s", " ", "1", "0", ".", "0", ".", "0", ".", "1", " ", "2", "5", "5", ".", "2", "5", "5", ".", "2", "5", "5", ".", "0">>,
                      <<"n", "o", " ", "s", "h", "u", "t", "d", "o", "w", "n">>>>)
TextS4 == JoinLines(<<<<"h", "o", "s", "t", "n", "a", "m", "e", " ", "R", "1">>,
                      <<"i", "n", "t", "e", "r", "f", "a", "c", "e", " ", "G", "i", "0", "/", "1">>,
                      <<" ", "d", "e", "s", "c", "r", "i", "p", "t", "i", "o", "n", " ", "c", "o", "r", "e">>,
                      <<"n", "t", "p", " ", "s", "e", "r", "v", "e", "r", " ", "1", ".", "1", ".", "1", ".", "1">>>>)
TextS5 == JoinLines(<<<<"i", "p", "v", "6", " ", "a", "d", "d", "r", "e", "s", "s", " ", "2", "0", "0", "1", ":", ":", "1", "/", "6", "4">>,
                      <<"i", "p", " ", "a", "d", "d", "r", "e", "s", "s", " ", "1", "0", ".", "0", ".", "0", ".", "1", " ", "2", "5", "5", ".", "2", "5", "5", ".", "2", "5", "5", ".", "0">>>>)

\* a configuration with orphan commands, nesting, comments and blank lines
TextMixed == JoinLines(<<<<"n", "o", " ", "s", "h", "u", "t", "d", "o", "w", "n">>,
                         <<" ", "d", "e", "s", "c", "r", "i", "p", "t", "i", "o", "n", " ", "u", "p", "l", "i", "n", "k">>,
                         <<"!", " ", "c", "o", "m", "m", "e", "n", "t">>,
                         <<"h", "o", "s", "t", "n", "a", "m", "e", " ", "R", "1">>,
                         <<"i", "n", "t", "e", "r", "f", "a", "c", "e", " ", "G", "i", "0", "/", "1">>,
                         <<"U+00A0", "d", "e", "s", "c", "r", "i", "p", "t", "i", "o", "n", " ", "c", "o", "r", "e", "\r">>,
                         <<" ", " ", "I", "P", " ", "A", "d", "d", "r", "e", "s", "s", " ", "1", ".", "1", ".", "1", ".", "1">>,
                         <<>>,
                         <<"n", "t", "p", " ", "s", "e", "r", "v", "e", "r", " ", "1", ".", "1", ".", "1", ".", "1">>,
                         <<"n", "o", " ", "s", "h", "u", "t", "d", "o", "w", "n">>>>)

\* a block starter indented below a command of a section
TextNested == JoinLines(<<<<"i", "n", "t", "e", "r", "f", "a", "c", "e", " ", "G", "i", "0", "/", "1">>,
                          <<" ", "d", "e", "s", "c", "r", "i", "p", "t", "i", "o", "n", " ", "u", "p", "l", "i", "n", "k">>,
                          <<" ", " ", "v", "l", "a", "n", " ", "1", "0">>,
                          <<" ", " ", " ", "n", "a", "m", "e", " ", "u", "s", "e", "r", "s">>,
                          <<" ", " ", " ", " ", "m", "t", "u", " ", "1", "5", "0", "0">>>>)

\* the empty text, and a text of comments and blank lines only
TextEmpty == <<>>
TextComments == JoinLines(<<<<"!", " ", "c", "o", "m", "m", "e", "n", "t">>, <<>>, <<" ", "\t", "U+00A0", "\r">>, <<"!">>>>)

\* a snippet pasted with its indentation
TextSnippet == JoinLines(<<<<" ", "i", "p", " ", "a", "d", "d", "r", "e", "s", "s", " ", "1", "0", ".", "0", ".", "0", ".", "1", " ", "2", "5", "5", ".", "2", "5", "5", ".", "2", "5", "5", ".", "0">>,
                           <<" ", "n", "o", " ", "s", "h", "u", "t", "d", "o", "w", "n">>,
                           <<" ", " ", "s", "h", "u", "t", "d", "o", "w", "n">>>>)

ScenarioTexts == {TextS1, TextS2, TextS3, TextS4, TextS5, TextMixed, TextNested,
                  TextEmpty, TextComments, TextSnippet}

GeneratedTexts ==
    {JoinLines(ls) : ls \in UNION {[1..n -> PoolLines] : n \in 1..MaxLines}}

\* the texts given to parse
Texts == ScenarioTexts \cup GeneratedTexts

\* ParserOptions after the constructor's defaults: new SchemaAwareParser(),
\* and a parser for a snippet that begins at line 10
DefaultOptions == [startLine |-> 0, source |-> "base"]
OptionValues == {DefaultOptions, [startLine |-> 10, source |-> "snippet"]}

(***************************************************************************)
(* The state                                                               *)
(***************************************************************************)
VARIABLES
    options,       \* SchemaAwareParser.options
    pc,            \* where the caller is: "idle", "loop", "parsed", "ran",
                   \* "reran"
    configText,    \* the argument of parse
    lineContexts,  \* parse: the surviving lines, ParsedLine records
    cursor,        \* parse: the number of lineContexts already processed
    heap,          \* the ConfigNode objects created by parse, in creation order;
                   \* a reference to a node is its index, children are references
    rootNodes,     \* parse: references to the top-level nodes
    parentStack,   \* parse: references, the top is the last element
    forest,        \* the value parse returned
    rules,         \* the rules argument of run
    context,       \* the context argument of run, an object: key -> value
    calls,         \* the check invocations run made, in order
    results,       \* the value run returned
    fs,            \* the paths existsSync finds
    cliCall,       \* the last call of the command line: function and arguments
    cliResult,     \* the value that call returned
    now,           \* the time of the editor, in units of 100 ms
    debounceTimers,\* extension.ts: uri -> the timer scheduleScan stored
    timers,        \* the timers armed with setTimeout and not yet fired or cleared:
                   \* handle -> the instant from which its callback may run
    armed,         \* the document of every setTimeout made so far, in order: the
                   \* handle of a timer is its index
    scans,         \* the calls of runScan made by timers, in order
    large,         \* the documents whose text is longer than MAX_FILE_SIZE
    scanVersions,  \* extension.ts: uri -> the version of the last scan started
    diagnostics    \* diagnosticCollection: uri -> the diagnostics published, each
                   \* with its line and the version of the scan that made it, 0
                   \* for a scan of a selection

\* the state of the command line
cliVars == <<fs, cliCall, cliResult>>

\* the state of the editor extension
editorVars == <<now, debounceTimers, timers, armed, scans, large, scanVersions,
                diagnostics>>

vars == <<options, pc, configText, lineContexts, cursor, heap, rootNodes,
          parentStack, forest, rules, context, calls, results, cliVars,
          editorVars>>

(***************************************************************************)
(* SchemaAwareParser.ts                                                    *)
(***************************************************************************)
RECURSIVE preprocess(_, _, _)
\* the preprocessing that tests the original line, not the sanitized one,
\* for emptiness
preprocess_rawEmpty(lines, i, startLine) ==
    IF i >= Len(lines) THEN <<>>
    ELSE LET originalLine == lines[i + 1]
             sanitizedLine == sanitizeText(originalLine)
         IN  IF Len(originalLine) = 0 \/ startsWith(sanitizedLine, <<"!">>)
             THEN preprocess(lines, i + 1, startLine)
             ELSE <<[original       |-> originalLine,
                     sanitized      |-> sanitizedLine,
                     lineNumber     |-> startLine + i,
                     indent         |-> searchNonSpace(originalLine),
                     isBlockStarter |-> isSchemaBlockStarter(sanitizedLine)]>>
                  \o preprocess(lines, i + 1, startLine)

\* the preprocessing that numbers the surviving lines only
preprocess_renumbered(lines, i, startLine) ==
    IF i >= Len(lines) THEN <<>>
    ELSE LET originalLine == lines[i + 1]
             sanitizedLine == sanitizeText(originalLine)
             kept(l) == LET s == sanitizeText(l)
                        IN  Len(s) # 0 /\ ~startsWith(s, <<"!">>)
         IN  IF Len(sanitizedLine) = 0 \/ startsWith(sanitizedLine, <<"!">>)
             THEN preprocess(lines, i + 1, startLine)
             ELSE <<[original       |-> originalLine,
                     sanitized      |-> sanitizedLine,
                     lineNumber     |-> startLine + Len(SelectSeq(SubSeq(lines, 1, i), kept)),
                     indent         |-> searchNonSpace(originalLine),
                     isBlockStarter |-> isSchemaBlockStarter(sanitizedLine)]>>
                  \o preprocess(lines, i + 1, startLine)

\* parse, lines 61-77: the ParsedLine of line i (0-based) of the text, or
\* nothing for an empty line or a comment
preprocess(lines, i, startLine) ==
    IF i >= Len(lines) THEN <<>>
    ELSE LET originalLine == lines[i + 1]
             sanitizedLine == sanitizeText(originalLine)
         IN  IF Len(sanitizedLine) = 0 \/ startsWith(sanitizedLine, <<"!">>)
             THEN preprocess(lines, i + 1, startLine)
             ELSE <<[original       |-> originalLine,
                     sanitized      |-> sanitizedLine,
                     lineNumber     |-> startLine + i,
                     indent         |-> searchNonSpace(originalLine),
                     isBlockStarter |-> isSchemaBlockStarter(sanitizedLine)]>>
                  \o preprocess(lines, i + 1, startLine)

\* createConfigNode keeping the sanitized line as rawText
createConfigNode_sanitizedRaw(parsedLine, type, source) ==
    [id       |-> parsedLine.sanitized,
     type     |-> type,
     rawText  |-> parsedLine.sanitized,
     params   |-> splitWords(parsedLine.sanitized, <<>>),
     children |-> <<>>,
     source   |-> source,
     loc      |-> [startLine |-> parsedLine.lineNumber,
                   endLine   |-> parsedLine.lineNumber],
     indent   |-> parsedLine.indent]

\* createConfigNode
createConfigNode(parsedLine, type, source) ==
    [id       |-> parsedLine.sanitized,
     type     |-> type,
     rawText  |-> parsedLine.original,
     params   |-> splitWords(parsedLine.sanitized, <<>>),
     children |-> <<>>,
     source   |-> source,
     loc      |-> [startLine |-> parsedLine.lineNumber,
                   endLine   |-> parsedLine.lineNumber],
     indent   |-> parsedLine.indent]

\* the indentation break with < in place of <=
isIndentationBreak_strict(currentLine, topOfStack) ==
    currentLine.indent < topOfStack.indent

\* parse, line 94
isIndentationBreak(currentLine, topOfStack) ==
    currentLine.indent <= topOfStack.indent

\* a block starter that never forces a pop
isBlockStarterForcingPop_never(currentLine, topOfStack) == FALSE

\* a block starter that pops sections in place of the other nodes
isBlockStarterForcingPop_sections(currentLine, topOfStack) ==
    currentLine.isBlockStarter /\ topOfStack.type = "section"

\* a block starter that pops every node, sections too
isBlockStarterForcingPop_always(currentLine, topOfStack) ==
    currentLine.isBlockStarter

\* parse, line 95
isBlockStarterForcingPop(currentLine, topOfStack) ==
    currentLine.isBlockStarter /\ topOfStack.type # "section"

\* the pops that stop after the first one
pruneStack_once(stack, h, currentLine) ==
    IF Len(stack) = 0 THEN stack
    ELSE LET topOfStack == h[stack[Len(stack)]]
         IN  IF \/ isIndentationBreak(currentLine, topOfStack)
                \/ isBlockStarterForcingPop(currentLine, topOfStack)
             THEN SubSeq(stack, 1, Len(stack) - 1)
             ELSE stack

\* the pops that keep a section of equal indent as the parent of a command
RECURSIVE pruneStack_flatPromotion(_, _, _)
pruneStack_flatPromotion(stack, h, currentLine) ==
    IF Len(stack) = 0 THEN stack
    ELSE LET topOfStack == h[stack[Len(stack)]]
         IN  IF \/ /\ isIndentationBreak(currentLine, topOfStack)
                   /\ ~(/\ topOfStack.type = "section"
                         /\ ~currentLine.isBlockStarter
                         /\ currentLine.indent = topOfStack.indent)
                \/ isBlockStarterForcingPop(currentLine, topOfStack)
             THEN pruneStack_flatPromotion(SubSeq(stack, 1, Len(stack) - 1), h, currentLine)
             ELSE stack

\* the pops made for indentation only
RECURSIVE pruneStack_shallow(_, _, _)
pruneStack_shallow(stack, h, currentLine) ==
    IF Len(stack) = 0 THEN stack
    ELSE LET topOfStack == h[stack[Len(stack)]]
         IN  IF isIndentationBreak(currentLine, topOfStack)
             THEN pruneStack_shallow(SubSeq(stack, 1, Len(stack) - 1), h, currentLine)
             ELSE stack

\* parse, lines 91-102: the parent stack after the pops for currentLine
RECURSIVE pruneStack(_, _, _)
pruneStack(stack, h, currentLine) ==
    IF Len(stack) = 0 THEN stack
    ELSE LET topOfStack == h[stack[Len(stack)]]
         IN  IF \/ isIndentationBreak(currentLine, topOfStack)
                \/ isBlockStarterForcingPop(currentLine, topOfStack)
             THEN pruneStack(SubSeq(stack, 1, Len(stack) - 1), h, currentLine)
             ELSE stack

\* the ConfigNode value a reference stands for, children included
RECURSIVE Deref(_, _)
Deref(h, ref) ==
    [h[ref] EXCEPT !.children =
        [k \in DOMAIN h[ref].children |-> Deref(h, h[ref].children[k])]]

DerefAll(h, refs) == [k \in DOMAIN refs |-> Deref(h, refs[k])]

\* the span of the virtual root never extended
extendSpan_keep(vroot, node) == vroot.loc.endLine

\* applyVirtualContext, line 184
extendSpan(vroot, node) ==
    IF vroot.loc.endLine >= node.loc.endLine THEN vroot.loc.endLine
    ELSE node.loc.endLine

\* the virtual root spanning from the first line of the file
newVirtualRoot_fromTop(node, source) ==
    [id       |-> <<"v", "i", "r", "t", "u", "a", "l", "_", "r", "o", "o", "t", "_", "l", "i", "n", "e", "_">> \o numberToString(node.loc.startLine),
     type     |-> "virtual_root",
     rawText  |-> <<"v", "i", "r", "t", "u", "a", "l", "_", "r", "o", "o", "t">>,
     params   |-> << <<"v", "i", "r", "t", "u", "a", "l", "_", "r", "o", "o", "t">> >>,
     children |-> <<>>,
     source   |-> source,
     loc      |-> [startLine |-> 0,
                   endLine   |-> node.loc.endLine]]

\* applyVirtualContext, lines 167-178
newVirtualRoot(node, source) ==
    [id       |-> <<"v", "i", "r", "t", "u", "a", "l", "_", "r", "o", "o", "t", "_", "l", "i", "n", "e", "_">> \o numberToString(node.loc.startLine),
     type     |-> "virtual_root",
     rawText  |-> <<"v", "i", "r", "t", "u", "a", "l", "_", "r", "o", "o", "t">>,
     params   |-> << <<"v", "i", "r", "t", "u", "a", "l", "_", "r", "o", "o", "t">> >>,
     children |-> <<>>,
     source   |-> source,
     loc      |-> [startLine |-> node.loc.startLine,
                   endLine   |-> node.loc.endLine]]

\* the loop that does not reset currentVirtualRoot at a section
RECURSIVE wrapFrom_noReset(_, _, _, _, _)
wrapFrom_noReset(nodes, k, processedNodes, currentVirtualRoot, source) ==
    IF k > Len(nodes) THEN processedNodes
    ELSE LET node == nodes[k] IN
      IF node.type = "command"
      THEN LET created == IF currentVirtualRoot = 0
                          THEN Append(processedNodes, newVirtualRoot(node, source))
                          ELSE processedNodes
               at == IF currentVirtualRoot = 0 THEN Len(created)
                     ELSE currentVirtualRoot
               v == created[at]
               grown == [v EXCEPT !.children = Append(@, node),
                                  !.loc.endLine = extendSpan(v, node)]
           IN  wrapFrom_noReset(nodes, k + 1, [created EXCEPT ![at] = grown], at, source)
      ELSE wrapFrom_noReset(nodes, k + 1, Append(processedNodes, node),
                            currentVirtualRoot, source)

\* the loop that creates a virtual root for every top-level command
RECURSIVE wrapFrom_perCommand(_, _, _, _, _)
wrapFrom_perCommand(nodes, k, processedNodes, currentVirtualRoot, source) ==
    IF k > Len(nodes) THEN processedNodes
    ELSE LET node == nodes[k] IN
      IF node.type = "command"
      THEN LET v == newVirtualRoot(node, source)
               grown == [v EXCEPT !.children = Append(@, node),
                                  !.loc.endLine = extendSpan(v, node)]
           IN  wrapFrom_perCommand(nodes, k + 1, Append(processedNodes, grown), 0, source)
      ELSE wrapFrom_perCommand(nodes, k + 1, Append(processedNodes, node), 0, source)

\* applyVirtualContext, the loop from node k on; currentVirtualRoot is the
\* position of the virtual root in processedNodes, 0 for null
RECURSIVE wrapFrom(_, _, _, _, _)
wrapFrom(nodes, k, processedNodes, currentVirtualRoot, source) ==
    IF k > Len(nodes) THEN processedNodes
    ELSE LET node == nodes[k] IN
      IF node.type = "command"
      THEN LET created == IF currentVirtualRoot = 0
                          THEN Append(processedNodes, newVirtualRoot(node, source))
                          ELSE processedNodes
               at == IF currentVirtualRoot = 0 THEN Len(created)
                     ELSE currentVirtualRoot
               v == created[at]
               grown == [v EXCEPT !.children = Append(@, node),
                                  !.loc.endLine = extendSpan(v, node)]
           IN  wrapFrom(nodes, k + 1, [created EXCEPT ![at] = grown], at, source)
      ELSE wrapFrom(nodes, k + 1, Append(processedNodes, node), 0, source)

applyVirtualContext(nodes, source) == wrapFrom(nodes, 1, <<>>, 0, source)

\* new SchemaAwareParser(options); nothing has been parsed
Init ==
    /\ options \in OptionValues
    /\ pc = "idle"
    /\ configText = <<>>
    /\ lineContexts = <<>>
    /\ cursor = 0
    /\ heap = <<>>
    /\ rootNodes = <<>>
    /\ parentStack = <<>>
    /\ forest = <<>>
    /\ rules = <<>>
    /\ context = <<>>
    /\ calls = <<>>
    /\ results = <<>>
    /\ fs = {}
    /\ cliCall = [fn |-> "none"]
    /\ cliResult = <<>>
    /\ now = 0
    /\ debounceTimers = <<>>
    /\ timers = <<>>
    /\ armed = <<>>
    /\ scans = <<>>
    /\ large = {}
    /\ scanVersions = <<>>
    /\ diagnostics = <<>>

\* parse entered with the parent stack and the nodes of the last call kept,
\* as if they were fields of the parser
enterParse_sharedStack(text) ==
    /\ configText' = text
    /\ lineContexts' = preprocess(split(text), 0, options.startLine)
    /\ cursor' = 0
    /\ heap' = heap
    /\ rootNodes' = <<>>
    /\ parentStack' = parentStack
    /\ pc' = "loop"
    /\ UNCHANGED <<cliVars, editorVars>>
    /\ UNCHANGED <<options, forest, rules, context, calls, results>>

\* parse, lines 57-80: the preprocessing, and the fresh locals of the call
enterParse(text) ==
    /\ configText' = text
    /\ lineContexts' = preprocess(split(text), 0, options.startLine)
    /\ cursor' = 0
    /\ heap' = <<>>
    /\ rootNodes' = <<>>
    /\ parentStack' = <<>>
    /\ pc' = "loop"
    /\ UNCHANGED <<cliVars, editorVars>>
    /\ UNCHANGED <<options, forest, rules, context, calls, results>>

\* parse(text) is called on a parser that has parsed nothing yet
parseBegin(text) ==
    /\ pc = "idle"
    /\ enterParse(text)

\* parse(text) is called again on the same parser, the last forest still
\* held by the caller
parseAgain(text) ==
    /\ pc = "parsed"
    /\ enterParse(text)

\* the iteration of a strict parser, which rejects an indented line that
\* has no parent
parseLine_strict ==
    /\ pc = "loop"
    /\ cursor < Len(lineContexts)
    /\ LET currentLine == lineContexts[cursor + 1]
           newNodeType == IF currentLine.isBlockStarter THEN "section" ELSE "command"
           newNode == createConfigNode(currentLine, newNodeType, options.source)
           ref == Len(heap) + 1
           pruned == pruneStack(parentStack, heap, currentLine)
       IN  /\ pc' = (IF Len(pruned) = 0 /\ currentLine.indent > 0
                      THEN "rejected" ELSE pc)
           /\ IF Len(pruned) > 0
              THEN /\ heap' = Append([heap EXCEPT ![pruned[Len(pruned)]].children =
                                                     Append(@, ref)], newNode)
                   /\ rootNodes' = rootNodes
              ELSE /\ heap' = Append(heap, newNode)
                   /\ rootNodes' = Append(rootNodes, ref)
           /\ parentStack' = Append(pruned, ref)
    /\ cursor' = cursor + 1
    /\ UNCHANGED <<cliVars, editorVars>>
    /\ UNCHANGED <<options, configText, lineContexts, forest, rules, context,
                   calls, results>>

\* parse, one iteration of the loop of lines 82-113
parseLine ==
    /\ pc = "loop"
    /\ cursor < Len(lineContexts)
    /\ LET currentLine == lineContexts[cursor + 1]
           newNodeType == IF currentLine.isBlockStarter THEN "section" ELSE "command"
           newNode == createConfigNode(currentLine, newNodeType, options.source)
           ref == Len(heap) + 1
           pruned == pruneStack(parentStack, heap, currentLine)
       IN  /\ IF Len(pruned) > 0
              THEN /\ heap' = Append([heap EXCEPT ![pruned[Len(pruned)]].children =
                                                     Append(@, ref)], newNode)
                   /\ rootNodes' = rootNodes
              ELSE /\ heap' = Append(heap, newNode)
                   /\ rootNodes' = Append(rootNodes, ref)
           /\ parentStack' = Append(pruned, ref)
    /\ cursor' = cursor + 1
    /\ UNCHANGED <<cliVars, editorVars>>
    /\ UNCHANGED <<options, pc, configText, lineContexts, forest, rules, context,
                   calls, results>>

\* parse, line 116: the loop is over, the wrapped forest is returned
parseReturn ==
    /\ pc = "loop"
    /\ cursor = Len(lineContexts)
    /\ forest' = applyVirtualContext(DerefAll(heap, rootNodes), options.source)
    /\ pc' = "parsed"
    /\ UNCHANGED <<cliVars, editorVars>>
    /\ UNCHANGED <<options, configText, lineContexts, cursor, heap, rootNodes,
                   parentStack, rules, context, calls, results>>


\* parse as a function of the text and the options alone: the loop of
\* lines 82-113 from line k on, then line 116
RECURSIVE freshLoop(_, _, _, _, _, _)
freshLoop(lines, k, h, roots, stack, source) ==
    IF k > Len(lines) THEN applyVirtualContext(DerefAll(h, roots), source)
    ELSE LET currentLine == lines[k]
             newNodeType == IF currentLine.isBlockStarter THEN "section" ELSE "command"
             newNode == createConfigNode(currentLine, newNodeType, source)
             ref == Len(h) + 1
             pruned == pruneStack(stack, h, currentLine)
         IN  IF Len(pruned) > 0
             THEN freshLoop(lines, k + 1,
                            Append([h EXCEPT ![pruned[Len(pruned)]].children =
                                                 Append(@, ref)], newNode),
                            roots, Append(pruned, ref), source)
             ELSE freshLoop(lines, k + 1, Append(h, newNode),
                            Append(roots, ref), Append(pruned, ref), source)

\* new SchemaAwareParser(opts).parse(text)
parseFresh(text, opts) ==
    freshLoop(preprocess(split(text), 0, opts.startLine), 1, <<>>, <<>>, <<>>,
              opts.source)

(***************************************************************************)
(* engine/Runner.ts                                                        *)
(***************************************************************************)
\* IRule: id, an optional selector (the field is absent when undefined),
\* metadata.level, and check, named by what it does:
\*   "pass"  returns a passing result       "fail"  returns a failing result
\*   "throw" throws on every node           "undefined" returns nothing
\*   "throwOnCommand" throws on a command node, passes elsewhere
RulePool == {
    [id |-> "NET-IP", selector |-> <<"i", "p">>, level |-> "warning", check |-> "fail"],
    [id |-> "NET-ALL", level |-> "info", check |-> "throwOnCommand"],
    [id |-> "NET-IF", selector |-> <<"i", "n", "t", "e", "r", "f", "a", "c", "e">>, level |-> "warning", check |-> "throw"],
    [id |-> "NET-IP", selector |-> <<>>, level |-> "error", check |-> "undefined"],
    [id |-> "NET-WS", selector |-> <<" ", "i", "p">>, level |-> "info", check |-> "pass"],
    [id |-> "NET-ALL", level |-> "info", check |-> "pass"] }

\* the rules lists given to run
RuleLists == UNION {[1..n -> RulePool] : n \in 0..MaxRules}

\* rule.check(node, ruleContext): what the call does
check(rule, node) ==
    CASE rule.check = "pass" ->
           [kind |-> "return",
            result |-> [passed |-> TRUE, message |-> "ok", ruleId |-> rule.id,
                        nodeId |-> node.id, level |-> "info", loc |-> node.loc]]
      [] rule.check = "fail" ->
           [kind |-> "return",
            result |-> [passed |-> FALSE, message |-> "violation", ruleId |-> rule.id,
                        nodeId |-> node.id, level |-> rule.level, loc |-> node.loc]]
      [] rule.check = "throw" ->
           [kind |-> "throw", error |-> "boom"]
      [] rule.check = "throwOnCommand" ->
           IF node.type = "command"
           THEN [kind |-> "throw", error |-> "no commands"]
           ELSE [kind |-> "return",
                 result |-> [passed |-> TRUE, message |-> "ok", ruleId |-> rule.id,
                             nodeId |-> node.id, level |-> "info", loc |-> node.loc]]
      [] rule.check = "undefined" ->
           [kind |-> "undefined"]

\* matchesSelector trimming the selector before the comparison
matchesSelector_trimmed(node, rule) ==
    IF "selector" \notin DOMAIN rule \/ rule.selector = <<>>
    THEN TRUE
    ELSE LET normalizedId == toLowerCase(node.id)
             normalizedSelector == toLowerCase(trim(rule.selector))
         IN  startsWith(normalizedId, normalizedSelector)

\* matchesSelector where a rule without selector matches nothing
matchesSelector_nothing(node, rule) ==
    IF "selector" \notin DOMAIN rule \/ rule.selector = <<>>
    THEN FALSE
    ELSE LET normalizedId == toLowerCase(node.id)
             normalizedSelector == toLowerCase(rule.selector)
         IN  startsWith(normalizedId, normalizedSelector)

\* RuleEngine.matchesSelector
matchesSelector(node, rule) ==
    IF "selector" \notin DOMAIN rule \/ rule.selector = <<>>
    THEN TRUE
    ELSE LET normalizedId == toLowerCase(node.id)
             normalizedSelector == toLowerCase(rule.selector)
         IN  startsWith(normalizedId, normalizedSelector)

\* the catch clause reporting the level of the rule's metadata
caughtResult_ruleLevel(rule, node, error) ==
    [passed  |-> FALSE,
     message |-> "Rule execution error: " \o error,
     ruleId  |-> rule.id,
     nodeId  |-> node.id,
     level   |-> rule.level,
     loc     |-> node.loc]

\* run, lines 43-53: the result the catch clause pushes
caughtResult(rule, node, error) ==
    [passed  |-> FALSE,
     message |-> "Rule execution error: " \o error,
     ruleId  |-> rule.id,
     nodeId  |-> node.id,
     level   |-> "error",
     loc     |-> node.loc]

\* the invocation keeping only the results that did not pass
invoke_failuresOnly(rs, r, node, path) ==
    LET outcome == check(rs[r], node)
    IN  [path   |-> path,
         rule   |-> r,
         kind   |-> outcome.kind,
         pushed |-> CASE outcome.kind = "return" ->
                           IF outcome.result.passed THEN <<>> ELSE <<outcome.result>>
                      [] outcome.kind = "throw" ->
                           <<caughtResult(rs[r], node, outcome.error)>>
                      [] outcome.kind = "undefined" -> <<>>]

\* run, lines 26-53: one check invocation inside the try block; pushed is
\* what it appends to results
invoke(rs, r, node, path) ==
    LET outcome == check(rs[r], node)
    IN  [path   |-> path,
         rule   |-> r,
         kind   |-> outcome.kind,
         pushed |-> CASE outcome.kind = "return" -> <<outcome.result>>
                      [] outcome.kind = "throw" ->
                           <<caughtResult(rs[r], node, outcome.error)>>
                      [] outcome.kind = "undefined" -> <<>>]

RECURSIVE visitRules(_, _, _, _)
\* the loop over the rules skipping a rule whose id an earlier rule has
visitRules_uniqueIds(rs, r, node, path) ==
    IF r > Len(rs) THEN <<>>
    ELSE (IF /\ matchesSelector(node, rs[r])
             /\ \A q \in 1..(r - 1) : rs[q].id # rs[r].id
          THEN <<invoke(rs, r, node, path)>> ELSE <<>>)
         \o visitRules(rs, r + 1, node, path)

\* run, lines 24-55: the invocations for one node, from rule r on
visitRules(rs, r, node, path) ==
    IF r > Len(rs) THEN <<>>
    ELSE (IF matchesSelector(node, rs[r]) THEN <<invoke(rs, r, node, path)>> ELSE <<>>)
         \o visitRules(rs, r + 1, node, path)

\* run, lines 22-61: visit(node); a node is named by its path, the child
\* positions from the top level down
RECURSIVE visit(_, _, _)
RECURSIVE visitChildren(_, _, _, _)
\* visit recursing into the children before checking the node
visit_childrenFirst(rs, node, path) ==
    visitChildren(rs, node, path, 1) \o visitRules(rs, 1, node, path)

visit(rs, node, path) ==
    visitRules(rs, 1, node, path) \o visitChildren(rs, node, path, 1)

visitChildren(rs, node, path, k) ==
    IF k > Len(node.children) THEN <<>>
    ELSE visit(rs, node.children[k], Append(path, k))
         \o visitChildren(rs, node, path, k + 1)

RECURSIVE visitForest(_, _, _)
\* run visiting a node for the whole file when the forest is empty
visitForest_fileNode(rs, nodes, k) ==
    IF nodes = <<>>
    THEN visitRules(rs, 1, [id |-> <<>>, type |-> "virtual_root", children |-> <<>>,
                            loc |-> [startLine |-> 0, endLine |-> 0]], <<1>>)
    ELSE IF k > Len(nodes) THEN <<>>
    ELSE visit(rs, nodes[k], <<k>>) \o visitForest(rs, nodes, k + 1)

\* run, lines 63-65
visitForest(rs, nodes, k) ==
    IF k > Len(nodes) THEN <<>>
    ELSE visit(rs, nodes[k], <<k>>) \o visitForest(rs, nodes, k + 1)

RECURSIVE pushedResults(_)
pushedResults(invocations) ==
    IF invocations = <<>> THEN <<>>
    ELSE Head(invocations).pushed \o pushedResults(Tail(invocations))

\* the node at a path of a forest: the node a visit is at
RECURSIVE NodeAt(_, _)
NodeAt(nodes, path) ==
    IF Len(path) = 1 THEN nodes[path[1]]
    ELSE NodeAt(nodes[path[1]].children, Tail(path))

\* the partial contexts given to run: the default {}, and one that carries
\* an ast entry of its own beside another entry
EmptyContext == <<>>
StaleContext ==
    [ast      |-> <<[id |-> <<"s", "t", "a", "l", "e">>, type |-> "command", children |-> <<>>]>>,
     fileName |-> <<"a", ".", "c", "f", "g">>]
Contexts == {EmptyContext, StaleContext}

\* the context with the ast of the caller kept: { ast: nodes, ...context }
ruleContext_callerFirst(ctx, nodes, node) ==
    [key \in DOMAIN ctx \cup {"ast"} |->
        IF key \in DOMAIN ctx THEN ctx[key] ELSE nodes]

\* the context whose ast is the visited subtree
ruleContext_subtree(ctx, nodes, node) ==
    [key \in DOMAIN ctx \cup {"ast"} |->
        IF key = "ast" THEN <<node>> ELSE ctx[key]]

\* run, lines 28-31: { ...context, ast: nodes }, built for the check of node
ruleContext(ctx, nodes, node) ==
    [key \in DOMAIN ctx \cup {"ast"} |->
        IF key = "ast" THEN nodes ELSE ctx[key]]

\* the invocations, each with the context its check received
withContext(invocations, ctx, nodes) ==
    [k \in DOMAIN invocations |->
        [path    |-> invocations[k].path,
         rule    |-> invocations[k].rule,
         kind    |-> invocations[k].kind,
         pushed  |-> invocations[k].pushed,
         context |-> ruleContext(ctx, nodes, NodeAt(nodes, invocations[k].path))]]

\* the array run returns, were it a field of the engine that outlives the call
returned_kept(earlier, pushed) == earlier \o pushed

\* run, lines 19 and 67: results is a new array in every call; earlier is
\* what the call before returned
returned(earlier, pushed) == pushed

\* engine.run(nodes, rules, context) on the forest parse returned
run(rs, ctx) ==
    /\ pc = "parsed"
    /\ calls' = withContext(visitForest(rs, forest, 1), ctx, forest)
    /\ results' = returned(results, pushedResults(calls'))
    /\ rules' = rs
    /\ context' = ctx
    /\ pc' = "ran"
    /\ UNCHANGED <<cliVars, editorVars>>
    /\ UNCHANGED <<options, configText, lineContexts, cursor, heap, rootNodes,
                   parentStack, forest>>

\* the caller runs the engine once more, on the forest, the rules and the
\* context it passed before
runAgain ==
    /\ pc = "ran"
    /\ calls' = withContext(visitForest(rules, forest, 1), context, forest)
    /\ results' = returned(results, pushedResults(calls'))
    /\ pc' = "reran"
    /\ UNCHANGED <<cliVars, editorVars>>
    /\ UNCHANGED <<options, configText, lineContexts, cursor, heap, rootNodes,
                   parentStack, forest, rules, context>>

\* the scan is over; the caller keeps the parser for the next text
nextScan ==
    /\ pc \in {"parsed", "ran", "reran"}
    /\ pc' = "idle"
    /\ configText' = <<>>
    /\ lineContexts' = <<>>
    /\ cursor' = 0
    /\ heap' = <<>>
    /\ rootNodes' = <<>>
    /\ parentStack' = <<>>
    /\ forest' = <<>>
    /\ rules' = <<>>
    /\ context' = <<>>
    /\ calls' = <<>>
    /\ results' = <<>>
    /\ UNCHANGED <<options, cliVars, editorVars>>

(***************************************************************************)
(* Specifications                                                          *)
(***************************************************************************)
\* the parser on every text of Texts
Parse == \E text \in Texts : parseBegin(text)

Next ==
    \/ Parse
    \/ parseLine
    \/ parseReturn
    \/ nextScan

Spec == Init /\ [][Next]_vars

\* parse is a synchronous loop: once called, every iteration and the return
\* are taken
SpecLive == Init /\ [][Next]_vars /\ WF_vars(parseLine) /\ WF_vars(parseReturn)

\* one parser shared by every scan, as the editor extension does: parse is
\* called again while the caller holds the forest of the last call
SharedTexts == ScenarioTexts

ParseFirst == \E text \in SharedTexts : parseBegin(text)

ParseAgain == \E text \in SharedTexts : parseAgain(text)

NextShared ==
    \/ ParseFirst
    \/ ParseAgain
    \/ parseLine
    \/ parseReturn

SpecShared == Init /\ [][NextShared]_vars

\* the parser on every short string of letters, white space of several
\* kinds, line feeds and '!'
SanitizeAlphabet == {"a", "!", " ", "\n", "U+00A0", "U+2005", "U+FEFF"}

CharTexts == UNION {[1..n -> SanitizeAlphabet] : n \in 0..MaxChars}

ParseChars == \E text \in CharTexts : parseBegin(text)

NextSanitize ==
    \/ ParseChars
    \/ parseLine
    \/ parseReturn
    \/ nextScan

SpecSanitize == Init /\ [][NextSanitize]_vars

\* the texts the engine is run on
EngineTexts == ScenarioTexts

ParseForEngine == \E text \in EngineTexts : parseBegin(text)

Run == \E rs \in RuleLists : \E ctx \in Contexts : run(rs, ctx)

NextEngine ==
    \/ ParseForEngine
    \/ parseLine
    \/ parseReturn
    \/ Run
    \/ runAgain
    \/ nextScan

\* the callers of run construct the parser without options
InitEngine == Init /\ options = DefaultOptions

SpecEngine == InitEngine /\ [][NextEngine]_vars


(***************************************************************************)
(* The command line: cli/src/sarif.ts.  A path is the sequence of its      *)
(* segments below the root, the root directory being the empty sequence.   *)
(***************************************************************************)

\* the value null
null == <<>>

\* sarif.ts, lines 104-109
CONFIG_FILES == <<"gecko.config.ts", "gecko.config.js", ".geckorc.ts", ".geckorc.js">>

\* path.dirname of an absolute path; the root is its own parent
dirname(path) == IF path = <<>> THEN <<>> ELSE SubSeq(path, 1, Len(path) - 1)

\* path.resolve(dir, name) of an absolute directory and a file name
resolve(dir, name) == Append(dir, name)

\* the directories: one chain from the root down to depth MaxDepth
DirNames == <<"a", "b", "c", "d">>
Dirs == {SubSeq(DirNames, 1, n) : n \in 0..MaxDepth}

\* the file systems: at most MaxFiles configuration files in the directories
ConfigPaths == {resolve(dir, CONFIG_FILES[i]) : dir \in Dirs, i \in DOMAIN CONFIG_FILES}
FileSystems == {files \in SUBSET ConfigPaths : Cardinality(files) <= MaxFiles}

\* findConfigFile, lines 119-124: the first of CONFIG_FILES that exists in
\* the directory, null when none does
firstExisting(currentDir, files) ==
    LET hits == {i \in DOMAIN CONFIG_FILES : resolve(currentDir, CONFIG_FILES[i]) \in files}
    IN  IF hits = {} THEN null
        ELSE resolve(currentDir, CONFIG_FILES[CHOOSE i \in hits : \A j \in hits : i <= j])

\* findConfigFile, lines 118-128: the while loop
RECURSIVE walkUp(_, _, _)
walkUp(currentDir, root, files) ==
    IF currentDir = root THEN null
    ELSE IF firstExisting(currentDir, files) # null
         THEN firstExisting(currentDir, files)
         ELSE IF dirname(currentDir) = currentDir THEN null
              ELSE walkUp(dirname(currentDir), root, files)

\* findConfigFile, lines 114-131; root is dirname(currentDir), line 116
findConfigFile(startDir, files) == walkUp(startDir, dirname(startDir), files)

\* the rules of @gecko/rules-default, as far as resolveRules reads them
defaultRules ==
    <<[id |-> "NET-001", from |-> "default", k |-> 1],
      [id |-> "NET-002", from |-> "default", k |-> 2]>>

\* the ids of the rules a configuration file or a rules file supplies
SuppliedIds == {"NET-001", "CUSTOM-001"}

\* the rule arrays one source supplies: k is the place of a rule in its array
RuleArrays(origin) ==
    UNION {{[k \in 1..n |-> [id |-> ids[k], from |-> origin, k |-> k]] :
              ids \in [1..n -> SuppliedIds]} : n \in 0..MaxRules}

\* the arrays of ids to disable
DisableArrays == {<<>>, <<"NET-001">>, <<"CUSTOM-001">>, <<"NET-001", "CUSTOM-001">>}

\* an optional value: <<>> when absent, <<v>> when present
Optional(values) == {<<>>} \cup {<<v>> : v \in values}

\* a GeckoConfig object, lines 86-95, with the fields that are present
GeckoConfig(includeDefaults, rs, disable) ==
    [key \in (IF Len(includeDefaults) > 0 THEN {"includeDefaults"} ELSE {}) \cup
             (IF Len(rs) > 0 THEN {"rules"} ELSE {}) \cup
             (IF Len(disable) > 0 THEN {"disable"} ELSE {}) |->
        IF key = "includeDefaults" THEN includeDefaults[1]
        ELSE IF key = "rules" THEN rs[1] ELSE disable[1]]

GeckoConfigs ==
    {GeckoConfig(includeDefaults, rs, disable) :
        includeDefaults \in Optional(BOOLEAN),
        rs \in Optional(RuleArrays("config")),
        disable \in Optional(DisableArrays)}

\* resolveRules, lines 199-207: the configuration in effect; loaded is what
\* the configuration file found holds, absent when none is found
configInEffect(noConfig, loaded) ==
    IF ~noConfig /\ Len(loaded) > 0 THEN loaded[1] ELSE [includeDefaults |-> TRUE]

\* Map.set that moves an id that is set again to the end
mapSet_moveToEnd(ruleMap, rule) ==
    Append(SelectSeq(ruleMap, LAMBDA other : other.id # rule.id), rule)

\* Map.set that keeps the rule an id already has
mapSet_keepFirst(ruleMap, rule) ==
    IF \E i \in DOMAIN ruleMap : ruleMap[i].id = rule.id
    THEN ruleMap
    ELSE Append(ruleMap, rule)

\* ruleMap.set(rule.id, rule): the map in insertion order; an id that is
\* present keeps its place and takes the new rule
mapSet(ruleMap, rule) ==
    IF \E i \in DOMAIN ruleMap : ruleMap[i].id = rule.id
    THEN [i \in DOMAIN ruleMap |-> IF ruleMap[i].id = rule.id THEN rule ELSE ruleMap[i]]
    ELSE Append(ruleMap, rule)

\* for (const rule of rs) ruleMap.set(rule.id, rule)
RECURSIVE setAll(_, _)
setAll(ruleMap, rs) ==
    IF rs = <<>> THEN ruleMap
    ELSE setAll(mapSet(ruleMap, Head(rs)), Tail(rs))

\* resolveRules, lines 235-238
allDisabledIds(config, disableIds) ==
    (IF "disable" \in DOMAIN config THEN {config.disable[i] : i \in DOMAIN config.disable} ELSE {})
        \cup {disableIds[i] : i \in DOMAIN disableIds}

\* resolveRules, lines 190-249; external is what the --rules file exports,
\* absent without --rules
resolveRules(noConfig, loaded, external, disableIds) ==
    LET config == configInEffect(noConfig, loaded)
        withDefaults ==
            IF "includeDefaults" \in DOMAIN config /\ config.includeDefaults = FALSE
            THEN <<>>
            ELSE setAll(<<>>, defaultRules)
        withConfig ==
            IF "rules" \in DOMAIN config THEN setAll(withDefaults, config.rules)
            ELSE withDefaults
        ruleMap ==
            IF Len(external) > 0 THEN setAll(withConfig, external[1]) ELSE withConfig
        disabled == allDisabledIds(config, disableIds)
    IN  SelectSeq(ruleMap, LAMBDA rule : rule.id \notin disabled)

\* the command line looks for a configuration file
FindConfigFile ==
    /\ cliCall.fn = "none"
    /\ \E files \in FileSystems : \E startDir \in Dirs :
        /\ fs' = files
        /\ cliCall' = [fn |-> "findConfigFile", startDir |-> startDir]
        /\ cliResult' = findConfigFile(startDir, files)
        /\ UNCHANGED <<options, pc, configText, lineContexts, cursor, heap,
                       rootNodes, parentStack, forest, rules, context, calls,
                       results, editorVars>>

\* the command line resolves its rule set
ResolveRules ==
    /\ cliCall.fn = "none"
    /\ \E noConfig \in BOOLEAN : \E loaded \in Optional(GeckoConfigs) :
       \E external \in Optional(RuleArrays("external")) : \E disableIds \in DisableArrays :
        /\ cliCall' = [fn |-> "resolveRules", noConfig |-> noConfig, loaded |-> loaded,
                       external |-> external, disableIds |-> disableIds]
        /\ cliResult' = resolveRules(noConfig, loaded, external, disableIds)
        /\ UNCHANGED <<options, pc, configText, lineContexts, cursor, heap,
                       rootNodes, parentStack, forest, rules, context, calls,
                       results, fs, editorVars>>

\* the result sequences engine.run may return to the command line, as far as
\* the command line reads them
ScanResults ==
    UNION {{[k \in 1..n |-> [passed |-> flags[k], ruleId |-> "NET-IP-001"]] :
              flags \in [1..n -> BOOLEAN]} : n \in 0..MaxRules}

\* the quiet filter keeping the passed results
quietFilter_passedOnly(rs, quiet) ==
    IF quiet THEN SelectSeq(rs, LAMBDA r : r.passed) ELSE rs

\* the action of the command, lines 40-42: results.filter(r => !r.passed)
quietFilter(rs, quiet) ==
    IF quiet THEN SelectSeq(rs, LAMBDA r : ~r.passed) ELSE rs

\* the action of the command, lines 25-60: what is printed, whether the
\* engine ran, and the exit code; readable is whether readFile returns,
\* engineResults what engine.run returns on the parsed file
scanFile(readable, ast, quiet, format, engineResults) ==
    IF ~readable
    THEN [exitCode |-> 2, ran |-> FALSE, printed |-> <<"error">>]
    ELSE IF ast
    THEN [exitCode |-> 0, ran |-> FALSE, printed |-> <<"ast">>]
    ELSE LET filtered == quietFilter(engineResults, quiet)
         IN  [exitCode |-> IF \E k \in DOMAIN filtered : ~filtered[k].passed
                           THEN 1 ELSE 0,
              ran      |-> TRUE,
              printed  |-> <<IF format = "sarif" THEN "sarif" ELSE "json", filtered>>]

\* gecko <file> with its options
ScanFile ==
    /\ cliCall.fn = "none"
    /\ \E readable \in BOOLEAN : \E ast \in BOOLEAN : \E quiet \in BOOLEAN :
       \E format \in {"json", "sarif"} : \E engineResults \in ScanResults :
        /\ cliCall' = [fn |-> "scan", readable |-> readable, ast |-> ast,
                       quiet |-> quiet, format |-> format, results |-> engineResults]
        /\ cliResult' = scanFile(readable, ast, quiet, format, engineResults)
        /\ UNCHANGED <<options, pc, configText, lineContexts, cursor, heap,
                       rootNodes, parentStack, forest, rules, context, calls,
                       results, fs, editorVars>>

\* the process of the command line ends; the next one starts anew
cliExit ==
    /\ cliCall.fn # "none"
    /\ fs' = {}
    /\ cliCall' = [fn |-> "none"]
    /\ cliResult' = <<>>
    /\ UNCHANGED <<options, pc, configText, lineContexts, cursor, heap,
                   rootNodes, parentStack, forest, rules, context, calls,
                   results, editorVars>>

NextCli ==
    \/ FindConfigFile
    \/ ResolveRules
    \/ ScanFile
    \/ cliExit

SpecCli == InitEngine /\ [][NextCli]_vars

(***************************************************************************)
(* The editor extension: vscode/src/extension.ts.  Time is counted in      *)
(* units of 100 ms; the handle setTimeout returns is the index of the call *)
(* in armed.                                                               *)
(***************************************************************************)

\* extension.ts, lines 25-26
SUPPORTED_LANGUAGES == {"network-config", "plaintext"}
DEBOUNCE_MS == 3

\* the open documents and the languageId of each
Uris == {"file:///r1.cfg", "file:///r2.txt", "file:///r3.json"}
languageId ==
    [uri \in Uris |->
        IF uri = "file:///r1.cfg" THEN "network-config"
        ELSE IF uri = "file:///r2.txt" THEN "plaintext" ELSE "json"]

\* Map.set(key, value), of debounceTimers and of the timers of the event loop
timerSet(map, key, value) ==
    [k \in DOMAIN map \cup {key} |-> IF k = key THEN value ELSE map[k]]

\* Map.delete(key)
timerDelete(map, key) ==
    [k \in DOMAIN map \ {key} |-> map[k]]

\* scheduleScan that leaves the timer of the document armed
clearExisting_kept(pending, handles, uri) == pending

\* scheduleScan, lines 245-248: the pending timers once the existing timer
\* of the document, if there is one, is cleared
clearExisting(pending, handles, uri) ==
    IF uri \in DOMAIN handles
    THEN [timer \in DOMAIN pending \ {handles[uri]} |-> pending[timer]]
    ELSE pending

\* the documents that may grow past MAX_FILE_SIZE: those scheduleScan reads
\* the length of
SizedUris == {uri \in Uris : languageId[uri] \in SUPPORTED_LANGUAGES}

\* document.lineCount of every document
lineCount == 2

\* what the timers of the editor leave alone
scansUnchanged == UNCHANGED <<scanVersions, diagnostics>>

\* scheduleScan(document, delay), lines 230-257; tooLarge is
\* document.getText().length > MAX_FILE_SIZE
scheduleScan(uri, tooLarge, delay) ==
    IF languageId[uri] \notin SUPPORTED_LANGUAGES \/ tooLarge
    THEN UNCHANGED <<now, debounceTimers, timers, armed, scans>>
    ELSE /\ Len(armed) < MaxTimers
         /\ now + delay <= MaxTime
         /\ armed' = Append(armed, uri)
         /\ timers' = timerSet(clearExisting(timers, debounceTimers, uri),
                               Len(armed) + 1, now + delay)
         /\ debounceTimers' = timerSet(debounceTimers, uri, Len(armed) + 1)
         /\ UNCHANGED <<now, scans>>

\* what the editor actions leave alone
parserUnchanged ==
    UNCHANGED <<options, pc, configText, lineContexts, cursor, heap, rootNodes,
                parentStack, forest, rules, context, calls, results, cliVars>>

\* onDocumentChange, lines 189-194; the edit leaves the document too large
\* or not
documentChange(uri, contentChanges, tooLarge) ==
    /\ IF contentChanges = 0
       THEN UNCHANGED editorVars
       ELSE /\ large' = IF uri \in SizedUris /\ tooLarge
                        THEN large \cup {uri} ELSE large \ {uri}
            /\ scheduleScan(uri, uri \in large', DEBOUNCE_MS)
            /\ scansUnchanged
    /\ parserUnchanged

\* the edits that leave the document within MAX_FILE_SIZE
onDocumentChange ==
    \E uri \in Uris : \E contentChanges \in 0..1 :
        documentChange(uri, contentChanges, FALSE)

\* the edits that change the size of the document
onDocumentResize ==
    \E uri \in SizedUris : \E tooLarge \in BOOLEAN :
        documentChange(uri, 1, tooLarge)

\* activate, line 64: onDidSaveTextDocument
onDidSaveTextDocument ==
    \E uri \in Uris :
        /\ scheduleScan(uri, uri \in large, 0)
        /\ UNCHANGED large
        /\ scansUnchanged
        /\ parserUnchanged

\* activate, line 65: onDidOpenTextDocument
onDidOpenTextDocument ==
    \E uri \in Uris :
        /\ scheduleScan(uri, uri \in large, 1)
        /\ UNCHANGED large
        /\ scansUnchanged
        /\ parserUnchanged

\* the close that leaves the timer of the document pending
closeDocument_leavesTimer(uri) ==
    /\ timers' = timers
    /\ debounceTimers' = timerDelete(debounceTimers, uri)
    /\ scanVersions' = timerDelete(scanVersions, uri)
    /\ diagnostics' = timerDelete(diagnostics, uri)
    /\ UNCHANGED <<now, armed, scans, large>>
    /\ parserUnchanged

\* onDocumentClose(document), lines 196-211
closeDocument(uri) ==
    /\ timers' = clearExisting(timers, debounceTimers, uri)
    /\ debounceTimers' = timerDelete(debounceTimers, uri)
    /\ scanVersions' = timerDelete(scanVersions, uri)
    /\ diagnostics' = timerDelete(diagnostics, uri)
    /\ UNCHANGED <<now, armed, scans, large>>
    /\ parserUnchanged

onDocumentClose == \E uri \in Uris : closeDocument(uri)

\* deactivate, lines 376-383
deactivate ==
    /\ debounceTimers # <<>> \/ scanVersions # <<>>
    /\ timers' = [timer \in DOMAIN timers \ {debounceTimers[uri] : uri \in DOMAIN debounceTimers}
                    |-> timers[timer]]
    /\ debounceTimers' = <<>>
    /\ scanVersions' = <<>>
    /\ UNCHANGED <<now, armed, scans, large, diagnostics>>
    /\ parserUnchanged

\* the version that does not advance
nextVersion_same(versions, uri) ==
    IF uri \in DOMAIN versions THEN versions[uri] ELSE 0

\* runScan, line 268: (scanVersions.get(uri) ?? 0) + 1
nextVersion(versions, uri) ==
    (IF uri \in DOMAIN versions THEN versions[uri] ELSE 0) + 1

\* runScan, lines 292-313: the diagnostics of the failed results, failing
\* being the startLine of each, for the lines the document has
diagnosticsOf(failing, version) ==
    LET inRange == SelectSeq(failing, LAMBDA line : line >= 0 /\ line < lineCount)
    IN  [k \in DOMAIN inRange |-> [line |-> inRange[k], scan |-> version]]

\* runScan(document, force), lines 259-329; failing is the startLine of each
\* failed result engine.run returns on the text of the document; parse and
\* run are synchronous and throw nothing, so that no other scan starts between
\* line 268 and the checks of lines 286 and 316
runScan(uri, force, failing) ==
    IF ~force /\ languageId[uri] \notin SUPPORTED_LANGUAGES
    THEN UNCHANGED <<scanVersions, diagnostics>>
    ELSE LET currentVersion == nextVersion(scanVersions, uri)
         IN  /\ scanVersions' = timerSet(scanVersions, uri, currentVersion)
             /\ diagnostics' =
                   IF scanVersions'[uri] # currentVersion
                   THEN diagnostics
                   ELSE timerSet(diagnostics, uri, diagnosticsOf(failing, currentVersion))

\* the failed results of the scans of whole documents: none, or one on the
\* first line
QuickResults == {<<>>, <<0>>}

\* the timers whose delay has passed
due == {timer \in DOMAIN timers : now >= timers[timer]}

\* the callback of setTimeout, lines 251-254, with runScan; a timer does not
\* fire before its delay has passed; scans records the handle of the timer
\* that scanned
timerCallback(timer, failing) ==
    /\ timers' = timerDelete(timers, timer)
    /\ debounceTimers' = timerDelete(debounceTimers, armed[timer])
    /\ scans' = IF languageId[armed[timer]] \in SUPPORTED_LANGUAGES
                THEN Append(scans, timer)
                ELSE scans
    /\ runScan(armed[timer], FALSE, failing)
    /\ UNCHANGED <<now, armed, large>>
    /\ parserUnchanged

timerFires == \E timer \in due : \E failing \in QuickResults : timerCallback(timer, failing)

\* the documents the active editor shows
ActiveUris == {"file:///r1.cfg", "file:///r3.json"}

\* cmdScanFile, lines 93-101, on the document of the active editor
scanFileCommand(uri, failing) ==
    /\ nextVersion(scanVersions, uri) <= MaxScans
    /\ runScan(uri, TRUE, failing)
    /\ UNCHANGED <<now, debounceTimers, timers, armed, scans, large>>
    /\ parserUnchanged

cmdScanFile == \E uri \in ActiveUris : \E failing \in QuickResults : scanFileCommand(uri, failing)

\* cmdScanSelection, line 153: the diagnostics the document has
existingDiagnostics(uri) == IF uri \in DOMAIN diagnostics THEN diagnostics[uri] ELSE <<>>

\* the filter that keeps only what lies before the selection
outsideSelection_before(existing, startLine, endLine) ==
    SelectSeq(existing, LAMBDA diagnostic : diagnostic.line < startLine)

\* cmdScanSelection, lines 154-156; the range of a diagnostic is one line
outsideSelection(existing, startLine, endLine) ==
    SelectSeq(existing, LAMBDA diagnostic :
        diagnostic.line < startLine \/ diagnostic.line > endLine)

\* cmdScanSelection, lines 130-149: the diagnostics of the failed results
\* that have a place, on the lines of the document
selectionDiagnostics(scanned, startLine) ==
    LET placed == SelectSeq(scanned, LAMBDA result :
                      ~result.passed /\ startLine + result.startLine < lineCount)
    IN  [k \in DOMAIN placed |-> [line |-> startLine + placed[k].startLine, scan |-> 0]]

\* cmdScanSelection, lines 103-167, on the document of the active editor
\* with the lines startLine..endLine selected; scanned is what engine.run
\* returns on the selected text
selectionScan(uri, startLine, endLine, scanned) ==
    LET merged == outsideSelection(existingDiagnostics(uri), startLine, endLine)
                  \o selectionDiagnostics(scanned, startLine)
    IN  /\ Len(merged) <= MaxDiagnostics
        /\ diagnostics' = timerSet(diagnostics, uri, merged)
        /\ UNCHANGED <<now, debounceTimers, timers, armed, scans, large, scanVersions>>
        /\ parserUnchanged

\* the results of the scan of a selection: none, or one that passed or
\* failed on a line of the text or on the line after the document
SelectionResults ==
    {<<>>} \cup {<<[passed |-> passed, startLine |-> line]>> :
                    passed \in BOOLEAN, line \in 0..lineCount}

cmdScanSelection ==
    \E uri \in ActiveUris : \E startLine \in 0..(lineCount - 1) :
        \E endLine \in startLine..(lineCount - 1) : \E scanned \in SelectionResults :
            selectionScan(uri, startLine, endLine, scanned)

\* 100 ms pass; the event loop runs the timers that are due before it waits
tick ==
    /\ now < MaxTime
    /\ due = {}
    /\ now' = now + 1
    /\ UNCHANGED <<debounceTimers, timers, armed, scans, large>>
    /\ scansUnchanged
    /\ parserUnchanged

NextEditor ==
    \/ onDocumentChange
    \/ onDidSaveTextDocument
    \/ onDidOpenTextDocument
    \/ onDocumentClose
    \/ deactivate
    \/ timerFires
    \/ tick

\* the event loop runs the callback of a timer that is due, and time passes
SpecEditor ==
    InitEngine /\ [][NextEditor]_vars /\ WF_vars(timerFires) /\ WF_vars(tick)

\* the editor with documents that grow past MAX_FILE_SIZE and shrink
NextLarge ==
    \/ onDocumentResize
    \/ onDidOpenTextDocument
    \/ timerFires
    \/ tick

SpecLarge == InitEngine /\ [][NextLarge]_vars

\* the editor with saved documents, the command that scans the file, and
\* documents that close
NextScans ==
    \/ onDidSaveTextDocument
    \/ cmdScanFile
    \/ onDocumentClose
    \/ timerFires

SpecScans == InitEngine /\ [][NextScans]_vars

\* the editor with the commands that scan the file and the selection
NextCommands ==
    \/ cmdScanFile
    \/ cmdScanSelection
    \/ onDocumentClose

SpecCommands == InitEngine /\ [][NextCommands]_vars

(***************************************************************************)
(* rules-default/src/network-rules.ts: NoMulticastBroadcastIp.  A 32-bit   *)
(* unsigned value is the sequence of its four bytes, the highest first.    *)
(***************************************************************************)

\* the value of a string of decimal digits
RECURSIVE digitsValue(_)
digitsValue(s) ==
    IF s = <<>> THEN 0
    ELSE 10 * digitsValue(SubSeq(s, 1, Len(s) - 1))
         + (CHOOSE n \in 0..9 : DigitChars[n + 1] = s[Len(s)])

\* Number(s) of a string of digits or letters: <<>> stands for NaN, <<n>> for n
Number(s) ==
    IF \A k \in DOMAIN s : s[k] \in Digits THEN <<digitsValue(s)>> ELSE <<>>

\* addr.split('.')
splitDots(addr) ==
    LET dots == {i \in DOMAIN addr : addr[i] = "."}
        nth(k) == IF k = 0 THEN 0
                  ELSE IF k > Cardinality(dots) THEN Len(addr) + 1
                  ELSE CHOOSE i \in dots : Cardinality({j \in dots : j < i}) = k - 1
    IN  [k \in 1..(Cardinality(dots) + 1) |-> SubSeq(addr, nth(k - 1) + 1, nth(k) - 1)]

\* the four bytes of the 32-bit value of a number below 2^31
bytesOf(n) ==
    <<(n \div 16777216) % 256, (n \div 65536) % 256, (n \div 256) % 256, n % 256>>

\* w << (8 * k) on 32 bits
shiftLeft(w, k) == [i \in 1..4 |-> IF i + k <= 4 THEN w[i + k] ELSE 0]

\* a & b and a | b of two bytes
RECURSIVE bitAnd(_, _)
bitAnd(a, b) ==
    IF a = 0 \/ b = 0 THEN 0
    ELSE (a % 2) * (b % 2) + 2 * bitAnd(a \div 2, b \div 2)

RECURSIVE bitOr(_, _)
bitOr(a, b) ==
    IF a = 0 THEN b
    ELSE IF b = 0 THEN a
    ELSE (IF a % 2 = 1 \/ b % 2 = 1 THEN 1 ELSE 0) + 2 * bitOr(a \div 2, b \div 2)

\* (v & w) >>> 0, (v | w) >>> 0 and ~w >>> 0
and32(v, w) == [i \in 1..4 |-> bitAnd(v[i], w[i])]
or32(v, w) == [i \in 1..4 |-> bitOr(v[i], w[i])]
not32(w) == [i \in 1..4 |-> 255 - w[i]]

\* check, lines 33-37: parseIp
parseIp(addr) ==
    LET parts == [k \in DOMAIN splitDots(addr) |-> Number(splitDots(addr)[k])]
    IN  IF Len(parts) # 4 \/ \E k \in DOMAIN parts : parts[k] = <<>>
        THEN null
        ELSE or32(or32(shiftLeft(bytesOf(parts[1][1]), 3),
                       shiftLeft(bytesOf(parts[2][1]), 2)),
                  or32(shiftLeft(bytesOf(parts[3][1]), 1),
                       bytesOf(parts[4][1])))

\* the /32 test that never holds
isHostMask_never(maskNum) == FALSE

\* check, line 83: maskNum === 0xFFFFFFFF
isHostMask(maskNum) == maskNum = <<255, 255, 255, 255>>

\* the results of check: message names the template of the message
ipResult(node, passed, message) ==
    [passed  |-> passed,
     message |-> message,
     ruleId  |-> "NET-IP-001",
     nodeId  |-> node.id,
     level   |-> IF passed THEN "info" ELSE "error",
     loc     |-> node.loc]

\* check, lines 78-128: the subnet test, ipNum being neither multicast nor
\* the global broadcast
subnetCheck(node, ipNum, maskNum) ==
    IF maskNum = null THEN ipResult(node, TRUE, "valid")
    ELSE IF isHostMask(maskNum) THEN ipResult(node, TRUE, "host route")
    ELSE LET networkAddr == and32(ipNum, maskNum)
             broadcastAddr == or32(networkAddr, not32(maskNum))
         IN  IF ipNum = networkAddr THEN ipResult(node, FALSE, "network id")
             ELSE IF ipNum = broadcastAddr THEN ipResult(node, FALSE, "broadcast")
             ELSE ipResult(node, TRUE, "valid")

\* NoMulticastBroadcastIp.check, lines 16-129
NoMulticastBroadcastIpCheck(node) ==
    IF Len(node.params) < 3 THEN ipResult(node, TRUE, "incomplete")
    ELSE LET ipNum == parseIp(node.params[3])
         IN  IF ipNum = null THEN ipResult(node, FALSE, "invalid format")
             ELSE IF ipNum[1] >= 224 /\ ipNum[1] <= 239
                  THEN ipResult(node, FALSE, "multicast")
             ELSE IF ipNum = <<255, 255, 255, 255>>
                  THEN ipResult(node, FALSE, "global broadcast")
             ELSE IF Len(node.params) >= 4
                  THEN subnetCheck(node, ipNum, parseIp(node.params[4]))
                  ELSE ipResult(node, TRUE, "valid")

\* NoMulticastBroadcastIp, lines 7-15
NoMulticastBroadcastIp ==
    [id |-> "NET-IP-001", selector |-> <<"i", "p", " ", "a", "d", "d", "r", "e", "s", "s">>, level |-> "error",
     check |-> "NoMulticastBroadcastIp"]

\* the addresses and the masks of the commands the rule is run on
AddressQuads ==
    {<<a, b, c, e>> : a \in {10, 127, 192, 223, 224, 239, 240, 255, 480},
                      b \in {0, 255}, c \in {0, 255}, e \in {0, 1, 3, 255}}
MaskQuads ==
    {<<255, 255, 255, 255>>, <<255, 255, 255, 0>>, <<255, 255, 255, 252>>,
     <<255, 0, 0, 0>>, <<0, 0, 0, 0>>}

\* the dotted form of four numbers
dotted(q) ==
    numberToString(q[1]) \o <<".">> \o numberToString(q[2]) \o <<".">>
        \o numberToString(q[3]) \o <<".">> \o numberToString(q[4])

\* the lines 'ip address A M', 'ip address A', 'ip address A dhcp' and
\* 'ip address'
IpAddressLines ==
    {<<"i", "p", " ", "a", "d", "d", "r", "e", "s", "s", " ">> \o dotted(a) \o <<" ">> \o dotted(m) :
        a \in AddressQuads, m \in MaskQuads}
    \cup {<<"i", "p", " ", "a", "d", "d", "r", "e", "s", "s", " ">> \o dotted(a) : a \in AddressQuads}
    \cup {<<"i", "p", " ", "a", "d", "d", "r", "e", "s", "s", " ">> \o dotted(a) \o <<" ", "s", "e", "c", "o", "n", "d", "a", "r", "y">> : a \in AddressQuads}
    \cup {<<"i", "p", " ", "a", "d", "d", "r", "e", "s", "s">>, <<"i", "p", " ", "a", "d", "d", "r", "e", "s", "s", " ", "d", "h", "c", "p">>}

\* the engine runs the rule on the node parse makes of one such line
RunIpRule ==
    /\ pc = "idle"
    /\ \E text \in IpAddressLines :
          LET nodes == parseFresh(text, DefaultOptions)
              node == nodes[1].children[1]
          IN  /\ configText' = text
              /\ forest' = nodes
              /\ results' = IF matchesSelector(node, NoMulticastBroadcastIp)
                            THEN <<NoMulticastBroadcastIpCheck(node)>>
                            ELSE <<>>
    /\ rules' = <<NoMulticastBroadcastIp>>
    /\ pc' = "ran"
    /\ UNCHANGED <<options, lineContexts, cursor, heap, rootNodes, parentStack,
                   context, calls, cliVars, editorVars>>

NextRule ==
    \/ RunIpRule
    \/ nextScan

SpecRule == InitEngine /\ [][NextRule]_vars

(***************************************************************************)
(* Vocabulary of the properties                                            *)
(***************************************************************************)
\* the elements of a sequence
Range(s) == {s[k] : k \in DOMAIN s}

\* the paths of a node and of its descendants
RECURSIVE PathsUnder(_, _)
PathsUnder(node, path) ==
    {path} \cup UNION {PathsUnder(node.children[k], Append(path, k)) :
                          k \in DOMAIN node.children}

\* the paths of all nodes of a forest
AllPaths(nodes) == UNION {PathsUnder(nodes[k], <<k>>) : k \in DOMAIN nodes}

\* the path of the parent of a node that is not top-level
ParentPath(path) == SubSeq(path, 1, Len(path) - 1)

\* p comes before q in depth-first pre-order: p is a proper prefix of q, or
\* p is to the left of q where they first differ
PreorderBefore(p, q) ==
    \/ Len(p) < Len(q) /\ SubSeq(q, 1, Len(p)) = p
    \/ \E i \in 1..Len(p) :
          /\ i <= Len(q)
          /\ SubSeq(p, 1, i - 1) = SubSeq(q, 1, i - 1)
          /\ p[i] < q[i]

\* the pre-order flattening of a forest, virtual roots left out
RECURSIVE Flatten(_)
Flatten(nodes) ==
    IF nodes = <<>> THEN <<>>
    ELSE (IF Head(nodes).type = "virtual_root" THEN <<>> ELSE <<Head(nodes)>>)
         \o Flatten(Head(nodes).children) \o Flatten(Tail(nodes))

\* the largest endLine of a node and its descendants
RECURSIVE MaxEndLine(_)
MaxEndLine(node) ==
    LET below == {MaxEndLine(node.children[k]) : k \in DOMAIN node.children}
                 \cup {node.loc.endLine}
    IN  CHOOSE m \in below : \A x \in below : x <= m

\* the lines of a text that are neither empty nor a comment once sanitized
Survives(line) ==
    LET s == sanitizeText(line) IN s # <<>> /\ s[1] # "!"

SurvivingLines(text) == SelectSeq(split(text), Survives)

\* the top level parse builds before the virtual-root wrapping
PreWrap == DerefAll(heap, rootNodes)

\* the number of nodes of PreWrap that forest[1..i-1] stand for
RECURSIVE WidthBefore(_)
WidthBefore(i) ==
    IF i <= 1 THEN 0
    ELSE WidthBefore(i - 1) +
         (IF forest[i - 1].type = "virtual_root" THEN Len(forest[i - 1].children) ELSE 1)

\* run invoked rule r on the node at path
Invoked(path, r) ==
    \E k \in DOMAIN calls : calls[k].path = path /\ calls[k].rule = r

\* the selector of the specification: the id is the selector, or begins
\* with the selector followed by a white-space character
BoundaryMatch(id, selector) ==
    LET i == toLowerCase(id)
        s == toLowerCase(selector)
    IN  \/ i = s
        \/ /\ startsWith(i, s)
           /\ Len(i) > Len(s)
           /\ i[Len(s) + 1] \in JsWhitespace

\* what the check of an invocation does
Outcome(c) == check(rules[c.rule], NodeAt(forest, c.path)).kind

\* the invocation appends a result: the check returns one or throws
Pushes(c) == Outcome(c) # "undefined"

\* the position in results of what invocation k appended
ResultIndex(k) == Len(SelectSeq(SubSeq(calls, 1, k), Pushes))

\* the rules whose check can throw
ThrowingRules == {r \in DOMAIN rules : rules[r].check \in {"throw", "throwOnCommand"}}

\* the rules, those that can throw returning nothing instead
QuietRules ==
    [r \in DOMAIN rules |->
        IF r \in ThrowingRules THEN [rules[r] EXCEPT !.check = "undefined"]
        ELSE rules[r]]

\* two runs check the same nodes with the same rules in the same order
SameInvocations(a, b) ==
    /\ Len(a) = Len(b)
    /\ \A k \in DOMAIN a : a[k].path = b[k].path /\ a[k].rule = b[k].rule

\* the results appended by invocations 1..k of the rules of ruleSet
RECURSIVE ResultsOfRules(_, _)
ResultsOfRules(k, ruleSet) ==
    IF k = 0 THEN <<>>
    ELSE ResultsOfRules(k - 1, ruleSet) \o
         (IF /\ calls[k].rule \in ruleSet
             /\ Pushes(calls[k])
             /\ ResultIndex(k) \in DOMAIN results
          THEN <<results[ResultIndex(k)]>>
          ELSE <<>>)

(***************************************************************************)
(* Properties                                                              *)
(***************************************************************************)

\* C1: flat-snippet promotion.  When a block-starter line is followed by a
\* line that is not a block starter and has the same indent, the command is
\* a child of that section; for scenario S2 the forest is exactly two root
\* sections, the 'ip address' command is a child of the first, and there
\* is no virtual_root.
C1_FlatSnippetPromotion ==
    pc = "parsed" =>
      /\ \A k \in 1..(Len(lineContexts) - 1) :
            ( /\ lineContexts[k].isBlockStarter
              /\ ~lineContexts[k + 1].isBlockStarter
              /\ lineContexts[k + 1].indent = lineContexts[k].indent )
            => (k + 1) \in Range(heap[k].children)
      /\ configText = TextS2 =>
            /\ Len(forest) = 2
            /\ \A i \in 1..2 : forest[i].type = "section"
            /\ Len(forest[1].children) = 1
            /\ forest[1].children[1].id = <<"i", "p", " ", "a", "d", "d", "r", "e", "s", "s", " ", "1", "0", ".", "0", ".", "0", ".", "1", " ", "2", "5", "5", ".", "2", "5", "5", ".", "2", "5", "5", ".", "0">>
            /\ forest[2].children = <<>>

\* C2: in every forest returned by parse, the endLine of each section is
\* the largest endLine of the section and all its descendants; for scenario
\* S1 the section's loc is {0, 2}.
C2_SectionEndLine ==
    pc = "parsed" =>
      /\ \A p \in AllPaths(forest) :
            LET S == NodeAt(forest, p)
            IN  S.type = "section" => S.loc.endLine = MaxEndLine(S)
      /\ (configText = TextS1 /\ options.startLine = 0) =>
            forest[1].loc = [startLine |-> 0, endLine |-> 2]

\* C3: selector right boundary.  For a non-empty selector s, run applies the
\* rule to node N iff lowercase(N.id) equals lowercase(s) or starts with
\* lowercase(s) followed by a white-space character ('ip' is not applied to
\* 'ipv6 address 2001::1/64' and is applied to 'ip address 10.0.0.1 ...').
C3_SelectorBoundary ==
    pc = "ran" =>
      \A p \in AllPaths(forest) : \A r \in DOMAIN rules :
          ("selector" \in DOMAIN rules[r] /\ rules[r].selector # <<>>) =>
             (Invoked(p, r) <=> BoundaryMatch(NodeAt(forest, p).id, rules[r].selector))

\* C4: failure barrier.  When a check throws on node N, run appends exactly
\* one result for that invocation, with passed = false, level = 'error', the
\* rule's id, N's id and N's loc; the exception does not end the run: the
\* invocations made, and the results of the rules that do not throw, are
\* those of a run in which the throwing rules return nothing instead.
C4_FailureBarrier ==
    pc = "ran" =>
      /\ \A k \in DOMAIN calls :
            Outcome(calls[k]) = "throw" =>
               /\ Len(calls[k].pushed) = 1
               /\ ResultIndex(k) \in DOMAIN results
               /\ LET N == NodeAt(forest, calls[k].path)
                      res == results[ResultIndex(k)]
                  IN  /\ res.passed = FALSE
                      /\ res.level = "error"
                      /\ res.ruleId = rules[calls[k].rule].id
                      /\ res.nodeId = N.id
                      /\ res.loc = N.loc
      /\ Len(results) = Len(SelectSeq(calls, Pushes))
      /\ SameInvocations(calls, visitForest(QuietRules, forest, 1))
      /\ ResultsOfRules(Len(calls), DOMAIN rules \ ThrowingRules)
            = pushedResults(visitForest(QuietRules, forest, 1))

C4_Witness ==
    /\ pc = "ran"
    /\ \E k \in DOMAIN calls :
          /\ Outcome(calls[k]) = "throw"
          /\ \E j \in DOMAIN calls : /\ j > k
                                     /\ calls[j].path = calls[k].path
                                     /\ Outcome(calls[j]) = "return"
          /\ \E j \in DOMAIN calls : j > k /\ calls[j].path # calls[k].path

\* C5: result ordering.  run invokes each (node, rule) pair whose selector
\* matches exactly once, in depth-first pre-order of the forest and, for
\* one node, in the order of the rules list; the results are listed in the
\* order of the invocations that produced them.
C5_ResultOrder ==
    pc = "ran" =>
      /\ \A p \in AllPaths(forest) : \A r \in DOMAIN rules :
            Invoked(p, r) <=> matchesSelector(NodeAt(forest, p), rules[r])
      /\ \A j, k \in DOMAIN calls :
            j < k => \/ PreorderBefore(calls[j].path, calls[k].path)
                     \/ calls[j].path = calls[k].path /\ calls[j].rule < calls[k].rule
      /\ LET pushing == SelectSeq(calls, Pushes)
         IN  /\ Len(results) = Len(pushing)
             /\ \A j \in DOMAIN results :
                   /\ results[j].nodeId = NodeAt(forest, pushing[j].path).id
                   /\ results[j].loc = NodeAt(forest, pushing[j].path).loc
                   /\ results[j].ruleId = rules[pushing[j].rule].id

C5_Witness ==
    /\ pc = "ran"
    /\ Len(results) >= 4
    /\ \E j, k \in DOMAIN calls :
          /\ j < k
          /\ calls[j].path = calls[k].path
          /\ Len(calls[j].path) = 2
    /\ \E j, k \in DOMAIN calls : calls[j].path[1] # calls[k].path[1]

\* C6: no line is lost, duplicated or reordered.  The pre-order flattening
\* of the forest parse returns, virtual roots left out, has exactly one node
\* per input line whose sanitized form is non-empty and does not begin with
\* '!', in the order of the lines, and the rawText of each node is that
\* line unchanged.
C6_LinesPreserved ==
    pc = "parsed" =>
      [k \in DOMAIN Flatten(forest) |-> Flatten(forest)[k].rawText]
         = SurvivingLines(configText)

C6_Witness ==
    /\ pc = "parsed"
    /\ Len(split(configText)) > Len(SurvivingLines(configText))
    /\ \E k \in DOMAIN forest : forest[k].type = "virtual_root"
    /\ \E p \in AllPaths(forest) :
          /\ Len(p) = 2
          /\ NodeAt(forest, p).rawText # NodeAt(forest, p).id
          /\ NodeAt(forest, ParentPath(p)).type = "section"

\* C7: virtual-root grouping.  The forest has a virtual_root iff the top
\* level built before wrapping holds a command; there are as many virtual
\* roots as maximal runs of consecutive top-level commands; the children of
\* each virtual root are one such run, in order, and the top-level sections
\* stay unchanged in their place (S4: virtual_root{hostname}, section,
\* virtual_root{ntp server}).
C7_VirtualRootGrouping ==
    pc = "parsed" =>
      LET vroots == {i \in DOMAIN forest : forest[i].type = "virtual_root"}
          runStarts == {k \in DOMAIN PreWrap :
                          /\ PreWrap[k].type = "command"
                          /\ (k = 1 \/ PreWrap[k - 1].type # "command")}
      IN  /\ (vroots # {}) <=> (\E k \in DOMAIN PreWrap : PreWrap[k].type = "command")
          /\ Cardinality(vroots) = Cardinality(runStarts)
          /\ \A i \in DOMAIN forest :
                LET a == WidthBefore(i) + 1 IN
                IF forest[i].type = "virtual_root"
                THEN LET b == WidthBefore(i) + Len(forest[i].children)
                     IN  /\ b >= a
                         /\ b <= Len(PreWrap)
                         /\ forest[i].children = SubSeq(PreWrap, a, b)
                         /\ \A k \in a..b : PreWrap[k].type = "command"
                         /\ (a = 1 \/ PreWrap[a - 1].type # "command")
                         /\ (b = Len(PreWrap) \/ PreWrap[b + 1].type # "command")
                ELSE /\ a <= Len(PreWrap)
                     /\ forest[i] = PreWrap[a]
                     /\ forest[i].type = "section"
          /\ WidthBefore(Len(forest) + 1) = Len(PreWrap)
          /\ configText = TextS4 =>
                /\ [i \in DOMAIN forest |-> forest[i].type]
                     = <<"virtual_root", "section", "virtual_root">>
                /\ [k \in DOMAIN forest[1].children |-> forest[1].children[k].id]
                     = << <<"h", "o", "s", "t", "n", "a", "m", "e", " ", "R", "1">> >>
                /\ forest[2].id = <<"i", "n", "t", "e", "r", "f", "a", "c", "e", " ", "G", "i", "0", "/", "1">>
                /\ Len(forest[2].children) = 1
                /\ [k \in DOMAIN forest[3].children |-> forest[3].children[k].id]
                     = << <<"n", "t", "p", " ", "s", "e", "r", "v", "e", "r", " ", "1", ".", "1", ".", "1", ".", "1">> >>

C7_Witness ==
    /\ pc = "parsed"
    /\ \E i \in DOMAIN forest :
          /\ i + 2 \in DOMAIN forest
          /\ forest[i].type = "virtual_root"
          /\ forest[i + 1].type = "section"
          /\ forest[i + 2].type = "virtual_root"

\* C8: virtual roots occur only at the top level.  No virtual_root is a
\* child of any node, every top-level node is a section or a virtual_root,
\* no two virtual roots are adjacent at the top level, and every
\* virtual_root has at least one child, all of them commands.
C8_VirtualRootsTopLevelOnly ==
    pc = "parsed" =>
      /\ \A p \in AllPaths(forest) :
            Len(p) > 1 => NodeAt(forest, p).type # "virtual_root"
      /\ \A i \in DOMAIN forest : forest[i].type \in {"section", "virtual_root"}
      /\ \A i \in DOMAIN forest :
            (i + 1 \in DOMAIN forest /\ forest[i].type = "virtual_root")
               => forest[i + 1].type # "virtual_root"
      /\ \A i \in DOMAIN forest :
            forest[i].type = "virtual_root" =>
               /\ forest[i].children # <<>>
               /\ \A k \in DOMAIN forest[i].children :
                     forest[i].children[k].type = "command"

C8_Witness ==
    /\ pc = "parsed"
    /\ \E i \in DOMAIN forest :
          /\ forest[i].type = "virtual_root"
          /\ Len(forest[i].children) >= 2
          /\ \E k \in DOMAIN forest[i].children : forest[i].children[k].children # <<>>
    /\ \E i \in DOMAIN forest : forest[i].type = "section"

\* C9: each virtual_root has id 'virtual_root_line_<n>' with n the
\* startLine of its first child, loc.startLine that of its first child,
\* loc.endLine the endLine of its last child, and the source of the parser's
\* options; distinct virtual roots of one forest have distinct ids (S3: two
\* orphan commands give one virtual_root with loc {0, 1}).
C9_VirtualRootIdentity ==
    pc = "parsed" =>
      /\ \A i \in DOMAIN forest :
            forest[i].type = "virtual_root" =>
               LET V == forest[i]
                   first == V.children[1]
                   last == V.children[Len(V.children)]
               IN  /\ V.id = <<"v", "i", "r", "t", "u", "a", "l", "_", "r", "o", "o", "t", "_", "l", "i", "n", "e", "_">> \o numberToString(first.loc.startLine)
                   /\ V.loc.startLine = first.loc.startLine
                   /\ V.loc.endLine = last.loc.endLine
                   /\ V.source = options.source
      /\ \A i, j \in DOMAIN forest :
            ( /\ i # j
              /\ forest[i].type = "virtual_root"
              /\ forest[j].type = "virtual_root" ) => forest[i].id # forest[j].id
      /\ (configText = TextS3 /\ options.startLine = 0) =>
            /\ Len(forest) = 1
            /\ forest[1].type = "virtual_root"
            /\ Len(forest[1].children) = 2
            /\ forest[1].loc = [startLine |-> 0, endLine |-> 1]

C9_Witness ==
    /\ pc = "parsed"
    /\ options.startLine = 10
    /\ options.source = "snippet"
    /\ \E i, j \in DOMAIN forest :
          /\ i < j
          /\ forest[i].type = "virtual_root"
          /\ forest[j].type = "virtual_root"
          /\ Len(forest[j].children) >= 2

\* C10: parent/indent invariant.  For every node N of the forest that has a
\* parent P: N.indent > P.indent, or P is a section, or P is a virtual_root;
\* a command is a child of a command only when its indent is strictly
\* greater.
C10_ParentIndent ==
    pc = "parsed" =>
      \A p \in AllPaths(forest) :
          Len(p) > 1 =>
             LET N == NodeAt(forest, p)
                 P == NodeAt(forest, ParentPath(p))
             IN  /\ \/ P.type = "virtual_root"
                    \/ P.type = "section"
                    \/ N.indent > P.indent
                 /\ (N.type = "command" /\ P.type = "command") => N.indent > P.indent

C10_Witness ==
    /\ pc = "parsed"
    /\ \E p \in AllPaths(forest) :
          /\ Len(p) > 2
          /\ NodeAt(forest, p).type = "command"
          /\ NodeAt(forest, ParentPath(p)).type = "command"
          /\ NodeAt(forest, ParentPath(ParentPath(p))).type = "section"


\* C11: a block-starter line is never attached under a command.  In every
\* forest parse returns, every section is top-level or has a section as
\* parent; so every ancestor of a section is a section and no section is
\* below a command or a virtual_root, whatever the indentation.
C11_SectionUnderSection ==
    pc = "parsed" =>
      \A p \in AllPaths(forest) :
          NodeAt(forest, p).type = "section" =>
             \A n \in 1..(Len(p) - 1) :
                 NodeAt(forest, SubSeq(p, 1, n)).type = "section"

\* a section nested in a section, and a block starter indented deeper than
\* the command before it, which promotion kept out of that command
C11_Witness ==
    /\ pc = "parsed"
    /\ \E p \in AllPaths(forest) :
          Len(p) = 2 /\ NodeAt(forest, p).type = "section"
    /\ \E k \in 1..(Len(lineContexts) - 1) :
          /\ ~lineContexts[k].isBlockStarter
          /\ lineContexts[k + 1].isBlockStarter
          /\ lineContexts[k + 1].indent > lineContexts[k].indent

\* the types of the nodes of a children list
TypesOf(nodes) == {nodes[k].type : k \in DOMAIN nodes}

\* C12 as stated: block starters cannot be siblings of plain commands.  In
\* the tree parse builds, no children list, and not the top level before
\* the virtual-root wrapping, holds both a section and a command.
C12_NoMixedSiblings ==
    pc = "parsed" =>
      /\ \A p \in AllPaths(forest) :
            ~({"section", "command"} \subseteq TypesOf(NodeAt(forest, p).children))
      /\ ~({"section", "command"} \subseteq TypesOf(PreWrap))

\* C12 amended: a section and a command are siblings only as children of a
\* section (or at the top level before the wrapping).  In the forest parse
\* returns, the children of a command and of a virtual_root are all
\* commands, and the top level holds no command.
C12_MixedOnlyUnderSection ==
    pc = "parsed" =>
      /\ \A p \in AllPaths(forest) :
            LET N == NodeAt(forest, p)
            IN  N.type # "section" => TypesOf(N.children) \subseteq {"command"}
      /\ "command" \notin TypesOf(forest)

\* a section whose children are a command and a section, and a command
\* with a child
C12_Witness ==
    /\ pc = "parsed"
    /\ \E p \in AllPaths(forest) :
          /\ NodeAt(forest, p).type = "section"
          /\ {"section", "command"} \subseteq TypesOf(NodeAt(forest, p).children)
    /\ \E p \in AllPaths(forest) :
          /\ NodeAt(forest, p).type = "command"
          /\ NodeAt(forest, p).children # <<>>

\* the rules of the list whose selector is the empty string
EmptySelectorRules ==
    {r \in DOMAIN rules : "selector" \in DOMAIN rules[r] /\ rules[r].selector = <<>>}

\* the rules of the list whose selector begins with white space
SpacedSelectorRules ==
    {r \in DOMAIN rules :
        /\ "selector" \in DOMAIN rules[r]
        /\ rules[r].selector # <<>>
        /\ rules[r].selector[1] \in JsWhitespace}

\* run invoked rule r on no node, and so appended no result for it
NeverInvoked(r) == \A k \in DOMAIN calls : calls[k].rule # r

\* C13 as stated: selector misuse matches nothing and raises no error.  A
\* rule whose selector is present but empty, or begins with white space, is
\* invoked on no node of the forest and run appends no result for it.
C13_SelectorMisuse ==
    pc = "ran" =>
      \A r \in EmptySelectorRules \cup SpacedSelectorRules : NeverInvoked(r)

\* C13 amended: a rule whose selector begins with white space is invoked on
\* no node and run appends no result for it and ends normally; a rule
\* whose selector is the empty string is not misuse: it is invoked on every
\* node, as a rule without selector is.
C13_SpacedSelectorMatchesNothing ==
    pc = "ran" =>
      /\ \A r \in SpacedSelectorRules : NeverInvoked(r)
      /\ \A r \in EmptySelectorRules : \A p \in AllPaths(forest) : Invoked(p, r)

\* run has ended on a forest with a node that the selector would match
\* but for its leading white space, and with an empty-selector rule
C13_Witness ==
    /\ pc = "ran"
    /\ EmptySelectorRules # {}
    /\ \E r \in SpacedSelectorRules : \E p \in AllPaths(forest) :
          startsWith(toLowerCase(NodeAt(forest, p).id),
                     toLowerCase(trim(rules[r].selector)))

\* the rules of the list without selector
AbsentSelectorRules == {r \in DOMAIN rules : "selector" \notin DOMAIN rules[r]}

\* the invocations of rule r on the node at path
InvocationsOf(path, r) ==
    {k \in DOMAIN calls : calls[k].path = path /\ calls[k].rule = r}

\* C14: a rule with an absent (undefined) or empty selector matches every
\* node: run invokes it once on every node of the forest, virtual roots
\* and nested children included.
C14_NoSelectorMatchesAll ==
    pc = "ran" =>
      \A r \in AbsentSelectorRules \cup EmptySelectorRules :
          \A p \in AllPaths(forest) : Cardinality(InvocationsOf(p, r)) = 1

\* a rule without selector and one with the empty selector have run on a
\* forest with a virtual root and a node three levels deep
C14_Witness ==
    /\ pc = "ran"
    /\ AbsentSelectorRules # {}
    /\ EmptySelectorRules # {}
    /\ \E i \in DOMAIN forest : forest[i].type = "virtual_root"
    /\ \E p \in AllPaths(forest) : Len(p) >= 3

\* the list holds one rule, without selector, whose check always passes
OnePassingRule ==
    /\ Len(rules) = 1
    /\ "selector" \notin DOMAIN rules[1]
    /\ rules[1].check = "pass"

\* C15: for a rules list holding one selector-less rule whose check always
\* returns a passing result, run returns exactly one result per node of
\* the forest, virtual roots and all descendants counted: the length of
\* the result is the number of nodes.
C15_OneResultPerNode ==
    (pc = "ran" /\ OnePassingRule) =>
      /\ Len(results) = Cardinality(AllPaths(forest))
      /\ \A p \in AllPaths(forest) :
            Cardinality({j \in DOMAIN results :
                            /\ results[j].nodeId = NodeAt(forest, p).id
                            /\ results[j].loc = NodeAt(forest, p).loc}) = 1
      /\ \A j \in DOMAIN results : results[j].passed

\* the rule has run on a forest with virtual roots, a section and nested
\* children
C15_Witness ==
    /\ pc = "ran"
    /\ OnePassingRule
    /\ \E i \in DOMAIN forest : forest[i].type = "virtual_root"
    /\ \E i \in DOMAIN forest : forest[i].type = "section"
    /\ \E p \in AllPaths(forest) : Len(p) >= 3
    /\ Len(results) >= 8

\* C16: run(forest, []) returns the empty sequence for every forest, and
\* run([], rules) returns the empty sequence for every rules list; no check
\* is invoked in either case.
C16_EmptyRun ==
    (pc = "ran" /\ (rules = <<>> \/ forest = <<>>)) =>
      /\ results = <<>>
      /\ calls = <<>>

\* run has ended on the empty forest with rules that match every node
C16_Witness ==
    /\ pc = "ran"
    /\ forest = <<>>
    /\ AbsentSelectorRules # {}
    /\ \E r \in DOMAIN rules : rules[r].check = "throw"

\* C17: every check invocation made by run receives a context whose ast is
\* the whole top-level forest given to run, never just the visited
\* subtree, also when the partial context of the caller carries an ast
\* entry of its own; every other entry of the partial context is passed
\* through unchanged.
C17_ContextAst ==
    pc = "ran" =>
      \A k \in DOMAIN calls :
          /\ DOMAIN calls[k].context = DOMAIN context \cup {"ast"}
          /\ calls[k].context.ast = forest
          /\ \A key \in DOMAIN context \ {"ast"} :
                calls[k].context[key] = context[key]

\* a check has run on a nested node of a forest of several top-level
\* nodes, with a partial context that has its own ast and another entry
C17_Witness ==
    /\ pc = "ran"
    /\ "ast" \in DOMAIN context
    /\ DOMAIN context # {"ast"}
    /\ context.ast # forest
    /\ Len(forest) >= 2
    /\ \E k \in DOMAIN calls : Len(calls[k].path) >= 2

\* the number of pops the pruning loop has made since parse was called:
\* every line pushes one node
PopsSoFar == cursor - Len(parentStack)

\* what holds while parse runs and when it has returned
ParseInProgress ==
    /\ pc \in {"idle", "loop", "parsed", "ran"}
    /\ pc \in {"loop", "parsed"} =>
          /\ cursor <= Len(lineContexts)
          /\ Len(heap) = cursor
          /\ Len(lineContexts) <= Len(split(configText))
          /\ PopsSoFar \in 0..cursor
          /\ \A i, j \in DOMAIN parentStack : i < j => parentStack[i] < parentStack[j]
    /\ pc = "parsed" =>
          /\ cursor = Len(lineContexts)
          /\ Cardinality(AllPaths(PreWrap)) = Len(lineContexts)

\* C18: parse never rejects input.  For every text (empty, only blank or
\* comment lines, any indentation, tabs, any mix of block starters and
\* commands) parse terminates and returns a forest without throwing; the
\* pruning loop pops every pushed node at most once, so the pops never
\* outnumber the pushes.
C18_ParseNeverRejects ==
    /\ []ParseInProgress
    /\ (pc = "loop") ~> (pc = "parsed")

\* parse has returned for a text with tabs, a block starter and a command,
\* after the pruning loop popped at least two nodes
C18_Witness ==
    /\ pc = "parsed"
    /\ PopsSoFar >= 2
    /\ Len(parentStack) >= 1
    /\ \E k \in DOMAIN lineContexts : lineContexts[k].original[1] = "\t"
    /\ \E k \in DOMAIN lineContexts : lineContexts[k].isBlockStarter
    /\ \E k \in DOMAIN lineContexts : ~lineContexts[k].isBlockStarter

\* what parse is about to return when its loop is over
AboutToReturn == applyVirtualContext(DerefAll(heap, rootNodes), options.source)

\* C19: parse is deterministic and stateless.  For any sequence of parse
\* calls on one shared SchemaAwareParser, the result of each call is what a
\* fresh parser with the same options returns for that text alone,
\* whatever was parsed before; so the same text with the same options
\* always gives structurally identical forests.
C19_ParseStateless ==
    /\ pc = "parsed" => forest = parseFresh(configText, options)
    /\ (pc = "loop" /\ cursor = Len(lineContexts)) =>
          AboutToReturn = parseFresh(configText, options)

\* the second call of parse on the shared parser is about to return a
\* forest, while the forest of an earlier call on another text is held
C19_Witness ==
    /\ pc = "loop"
    /\ cursor = Len(lineContexts)
    /\ cursor >= 3
    /\ forest # <<>>
    /\ forest # AboutToReturn
    /\ \E i \in DOMAIN forest : forest[i].children # <<>>

\* runs of trailing lines, each blank or beginning with '!'
Trailers == {
    <<>>,
    <<"!", " ", "e", "n", "d">>,
    <<" ", "\t", " ">>,
    JoinLines(<<<<"!">>, <<>>, <<"!", " ", "i", "n", "t", "e", "r", "f", "a", "c", "e", " ", "G", "i", "0", "/", "9">>>>),
    JoinLines(<<<<"U+00A0", "\r">>, <<"!", "!">>, <<>>>>) }

\* C20: parse is stable under trailing blank lines and trailing '!'
\* comment lines.  For every text t and every run u of lines that are each
\* blank or begin with '!', parse(t followed by u) is structurally
\* identical to parse(t), every loc included.
C20_TrailingLinesStable ==
    pc = "parsed" =>
      \A u \in Trailers :
          parseFresh(configText \o <<"\n">> \o u, options) = forest

\* parse has returned a forest with a nested node for a text that itself
\* ends with a line that is skipped
C20_Witness ==
    /\ pc = "parsed"
    /\ ~Survives(split(configText)[Len(split(configText))])
    /\ Len(split(configText)) >= 3
    /\ \E i \in DOMAIN forest : forest[i].type = "section" /\ forest[i].children # <<>>

\* the 0-based indices of the lines of the text that survive preprocessing
SurvivingIndices(text) ==
    {i \in 0..(Len(split(text)) - 1) : Survives(split(text)[i + 1])}

\* C21: preprocessing.  A line whose sanitized form is empty or begins with
\* '!' produces no node; every other line produces one node, whose
\* loc.startLine is the startLine option plus the 0-based index of the
\* line in the text split on line feeds, discarded lines counted: removed
\* blank and comment lines do not shift the line numbers.
C21_LineNumbers ==
    pc = "parsed" =>
      LET nodes == Flatten(forest)
      IN  /\ Len(nodes) = Cardinality(SurvivingIndices(configText))
          /\ {nodes[k].loc.startLine : k \in DOMAIN nodes}
                = {options.startLine + i : i \in SurvivingIndices(configText)}
          /\ \A k \in DOMAIN nodes :
                LET i == nodes[k].loc.startLine - options.startLine
                IN  /\ i \in SurvivingIndices(configText)
                    /\ nodes[k].rawText = split(configText)[i + 1]

\* a parser with startLine 10 has parsed a text in which a discarded line
\* comes before a surviving line
C21_Witness ==
    /\ pc = "parsed"
    /\ options.startLine = 10
    /\ \E i \in SurvivingIndices(configText) :
          \E j \in 0..(i - 1) : j \notin SurvivingIndices(configText)
    /\ Cardinality(SurvivingIndices(configText)) >= 2

\* the nodes of a list are in strictly ascending startLine and no loc
\* range reaches a later sibling
OrderedSiblings(nodes) ==
    \A i, j \in DOMAIN nodes :
        i < j => /\ nodes[i].loc.startLine < nodes[j].loc.startLine
                 /\ nodes[i].loc.endLine < nodes[j].loc.startLine

\* C22: the children of every node, and the top-level forest, are ordered
\* by strictly ascending loc.startLine, and the loc ranges of two siblings
\* do not overlap: the startLine of a sibling is greater than the endLine
\* of every earlier sibling.
C22_SiblingsOrdered ==
    pc = "parsed" =>
      /\ OrderedSiblings(forest)
      /\ \A p \in AllPaths(forest) : OrderedSiblings(NodeAt(forest, p).children)

\* a forest of at least three top-level nodes, with a virtual root after a
\* section with children, and a virtual root of several commands
C22_Witness ==
    /\ pc = "parsed"
    /\ Len(forest) >= 3
    /\ \E i, j \in DOMAIN forest :
          /\ i < j
          /\ forest[i].type = "section"
          /\ forest[i].children # <<>>
          /\ forest[j].type = "virtual_root"
          /\ Len(forest[j].children) >= 2

\* the strings sanitizeText was or can be applied to: the text and its lines
SanitizeInputs == {configText} \cup Range(split(configText))

\* C23: sanitize is idempotent: sanitizeText(sanitizeText(x)) =
\* sanitizeText(x) for every string x; the result has no leading or
\* trailing white space and contains none of U+00A0, U+2000..U+200A,
\* U+202F, U+205F, U+3000.
C23_SanitizeIdempotent ==
    pc # "idle" =>
      \A x \in SanitizeInputs :
          LET y == sanitizeText(x)
          IN  /\ sanitizeText(y) = y
              /\ y # <<>> => (y[1] \notin JsWhitespace /\ y[Len(y)] \notin JsWhitespace)
              /\ Range(y) \cap UnicodeSpaces = {}

\* a line with a Unicode space before and inside its text
C23_Witness ==
    /\ pc = "parsed"
    /\ \E x \in SanitizeInputs :
          /\ Len(x) >= 3
          /\ x[1] \in UnicodeSpaces
          /\ x[2] \notin JsWhitespace
          /\ x[3] \in UnicodeSpaces
          /\ sanitizeText(x) # x

\* a character that is not white space
NotWhitespace(c) == c \notin JsWhitespace

\* the positions of a string where a run of non-white-space characters begins
WordStarts(s) ==
    {k \in DOMAIN s : s[k] \notin JsWhitespace /\ (k = 1 \/ s[k - 1] \in JsWhitespace)}

\* the strings of a sequence, concatenated
RECURSIVE Concat(_)
Concat(ss) == IF ss = <<>> THEN <<>> ELSE Head(ss) \o Concat(Tail(ss))

\* C24: for every node of type section or command, id is the sanitized
\* form of rawText, rawText is the original input line unchanged (leading
\* white space kept), params is id split on white-space runs with no empty
\* element, and indent is the number of leading white-space characters of
\* rawText, a tab counted as one column.
C24_NodeFields ==
    pc = "parsed" =>
      \A p \in AllPaths(forest) :
          LET N == NodeAt(forest, p)
          IN  N.type \in {"section", "command"} =>
                /\ N.id = sanitizeText(N.rawText)
                /\ N.loc.startLine - options.startLine + 1 \in DOMAIN split(configText)
                /\ N.rawText = split(configText)[N.loc.startLine - options.startLine + 1]
                /\ \A k \in DOMAIN N.params :
                      /\ N.params[k] # <<>>
                      /\ Range(N.params[k]) \cap JsWhitespace = {}
                /\ Len(N.params) = Cardinality(WordStarts(N.id))
                /\ Concat(N.params) = SelectSeq(N.id, NotWhitespace)
                /\ N.indent \in 0..Len(N.rawText)
                /\ \A k \in 1..N.indent : N.rawText[k] \in JsWhitespace
                /\ N.indent < Len(N.rawText) => N.rawText[N.indent + 1] \notin JsWhitespace

\* a node of a line indented by tabs with three parameters, and a node of
\* a line with Unicode spaces before and inside it
C24_Witness ==
    /\ pc = "parsed"
    /\ \E p \in AllPaths(forest) :
          LET N == NodeAt(forest, p)
          IN  /\ N.type = "command"
              /\ N.rawText[1] = "\t"
              /\ N.indent = 2
              /\ Len(N.params) = 3
    /\ \E p \in AllPaths(forest) :
          LET N == NodeAt(forest, p)
          IN  /\ N.type = "section"
              /\ N.rawText[1] \in UnicodeSpaces
              /\ N.id # N.rawText
              /\ Len(N.params) = 2

\* the pairs of positions of the rules list that hold the same id
DuplicateIds ==
    {pair \in (DOMAIN rules) \X (DOMAIN rules) :
        pair[1] < pair[2] /\ rules[pair[1]].id = rules[pair[2]].id}

\* C25: duplicate rule ids are not an engine error.  When the rules list
\* holds two rules with the same id, both are invoked on every node they
\* match, in list order, and the results of both are in the output.
C25_DuplicateRuleIds ==
    pc = "ran" =>
      \A pair \in DuplicateIds : \A p \in AllPaths(forest) :
          /\ \A n \in 1..2 :
                matchesSelector(NodeAt(forest, p), rules[pair[n]]) =>
                   /\ Cardinality(InvocationsOf(p, pair[n])) = 1
                   /\ \A k \in InvocationsOf(p, pair[n]) :
                         Pushes(calls[k]) =>
                            /\ ResultIndex(k) \in DOMAIN results
                            /\ results[ResultIndex(k)].ruleId = rules[pair[n]].id
                            /\ results[ResultIndex(k)].nodeId = NodeAt(forest, p).id
                            /\ results[ResultIndex(k)].loc = NodeAt(forest, p).loc
          /\ \A j \in InvocationsOf(p, pair[1]) : \A k \in InvocationsOf(p, pair[2]) :
                j < k /\ (Pushes(calls[j]) /\ Pushes(calls[k]) =>
                             ResultIndex(j) < ResultIndex(k))

\* two different rules with one id have both appended a result for the
\* same node
C25_Witness ==
    /\ pc = "ran"
    /\ \E pair \in DuplicateIds : \E p \in AllPaths(forest) :
          /\ rules[pair[1]] # rules[pair[2]]
          /\ \E j \in InvocationsOf(p, pair[1]) : Pushes(calls[j])
          /\ \E k \in InvocationsOf(p, pair[2]) : Pushes(calls[k])
          /\ Len(p) >= 2

\* the position in the parent stack of the section nearest to its top, 0
\* when the stack holds no section
NearestSection ==
    LET sections == {s \in DOMAIN parentStack : heap[parentStack[s]].type = "section"}
    IN  IF sections = {} THEN 0
        ELSE CHOOSE s \in sections : \A t \in sections : t <= s

\* the loop of parse takes the next line
LineTaken == pc = "loop" /\ cursor < Len(lineContexts) /\ cursor' = cursor + 1

\* a block-starter line is next, indented deeper than the nearest section
\* of the parent stack
DeeperBlockStarter ==
    /\ lineContexts[cursor + 1].isBlockStarter
    /\ NearestSection > 0
    /\ lineContexts[cursor + 1].indent > heap[parentStack[NearestSection]].indent

\* C26: a section may contain a nested section.  A block-starter line with
\* indent strictly greater than that of the nearest section still on the
\* parent stack becomes a child of that section, also when plain commands
\* of that section lie in between: those commands are popped, the section
\* is not.
C26_NestedSection ==
    [][(LineTaken /\ DeeperBlockStarter) =>
          LET new == Len(heap')
              parent == parentStack[NearestSection]
          IN  /\ heap'[new].type = "section"
              /\ heap'[parent].children = Append(heap[parent].children, new)
              /\ parentStack' = Append(SubSeq(parentStack, 1, NearestSection), new)
              /\ rootNodes' = rootNodes]_vars

\* a block starter has just been attached to a section of the stack, past
\* a command of that section that was popped
C26_Witness ==
    /\ pc = "loop"
    /\ cursor >= 3
    /\ heap[cursor].type = "section"
    /\ Len(parentStack) >= 2
    /\ parentStack[Len(parentStack)] = cursor
    /\ LET parent == parentStack[Len(parentStack) - 1]
       IN  /\ heap[parent].type = "section"
           /\ Len(heap[parent].children) >= 2
           /\ heap[heap[parent].children[1]].type = "command"
           /\ heap[cursor].indent > heap[heap[parent].children[1]].indent

\* a call of run returns: the first on a forest, or the one made again
RunReturns == pc \in {"parsed", "ran"} /\ pc' \in {"ran", "reran"}

\* C27: run is read-only.  A call of run leaves the forest, every node of
\* it, the rules list and the partial context of the caller as they were,
\* so running the same rules twice on one forest returns equal result
\* sequences.
C27_RunReadOnly ==
    [][RunReturns =>
          /\ forest' = forest
          /\ heap' = heap
          /\ rules' \in RuleLists
          /\ context' \in Contexts
          /\ pc = "ran" =>
                /\ rules' = rules
                /\ context' = context
                /\ results' = results]_vars

\* run has returned a second time, with results, on a context that came
\* with an ast of its own
C27_Witness ==
    /\ pc = "reran"
    /\ Len(forest) >= 2
    /\ Len(rules) >= 2
    /\ Len(results) >= 2
    /\ context = StaleContext
    /\ \E k \in DOMAIN results : ~results[k].passed

\* the configuration the last call of resolveRules had in effect
ConfigOfCall == configInEffect(cliCall.noConfig, cliCall.loaded)

\* whether that configuration includes the default rules
DefaultsIncluded ==
    ~("includeDefaults" \in DOMAIN ConfigOfCall /\ ConfigOfCall.includeDefaults = FALSE)

\* the rules of the sources of the last call, in the order the sources are
\* loaded: defaults, configuration file, --rules file
ConfigRulesOfCall ==
    IF "rules" \in DOMAIN ConfigOfCall THEN ConfigOfCall.rules ELSE <<>>
ExternalRulesOfCall ==
    IF Len(cliCall.external) > 0 THEN cliCall.external[1] ELSE <<>>
SourcesOfCall ==
    (IF DefaultsIncluded THEN defaultRules ELSE <<>>)
        \o ConfigRulesOfCall \o ExternalRulesOfCall

\* the ids disabled by the configuration file or by --disable
DisabledOfCall ==
    (IF "disable" \in DOMAIN ConfigOfCall THEN Range(ConfigOfCall.disable) ELSE {})
        \cup Range(cliCall.disableIds)

\* the rule of the latest source that defines the id
LatestOf(id) ==
    LET sources == SourcesOfCall
        places == {k \in DOMAIN sources : sources[k].id = id}
    IN  sources[CHOOSE k \in places : \A j \in places : j <= k]

\* C28: resolveRules loads the default rules first, then the rules of the
\* configuration file override defaults with the same id, then the rules of
\* the --rules file override both by id, and at last every rule whose id is
\* in a disable list is removed, also when a later source defines it again;
\* with includeDefaults false no default rule appears.
C28_RulePriority ==
    cliCall.fn = "resolveRules" =>
        LET sources == SourcesOfCall
            disabled == DisabledOfCall
            kept == {sources[k].id : k \in DOMAIN sources} \ disabled
        IN  /\ \A k \in DOMAIN cliResult : cliResult[k].id \in kept
            /\ \A id \in kept :
                  /\ Cardinality({k \in DOMAIN cliResult : cliResult[k].id = id}) = 1
                  /\ \E k \in DOMAIN cliResult : cliResult[k] = LatestOf(id)
            /\ ~DefaultsIncluded =>
                  \A k \in DOMAIN cliResult : cliResult[k].from # "default"

\* a call in which the configuration file overrides a default, the --rules
\* file overrides the configuration file, and a disabled id is defined
\* again by the --rules file
C28_Witness ==
    /\ cliCall.fn = "resolveRules"
    /\ DefaultsIncluded
    /\ \E k \in DOMAIN ConfigRulesOfCall : ConfigRulesOfCall[k].id = "NET-001"
    /\ \E k \in DOMAIN ConfigRulesOfCall : ConfigRulesOfCall[k].id = "CUSTOM-001"
    /\ \E k \in DOMAIN ExternalRulesOfCall : ExternalRulesOfCall[k].id = "CUSTOM-001"
    /\ \E k \in DOMAIN ExternalRulesOfCall : ExternalRulesOfCall[k].id = "NET-001"
    /\ DisabledOfCall = {"CUSTOM-001"}
    /\ Len(cliResult) = 2
    /\ cliResult[1].from = "external"

\* the start directory and its ancestors
Ancestors(dir) == {SubSeq(dir, 1, n) : n \in 0..Len(dir)}

\* the directories that hold a file of one of the four names
Holders(dirs) ==
    {dir \in dirs : \E i \in DOMAIN CONFIG_FILES : resolve(dir, CONFIG_FILES[i]) \in fs}

\* C29: findConfigFile(startDir) checks startDir, then each ancestor up to
\* the root, and returns the configuration file of the nearest directory
\* that has one, within one directory in the order of the four names; it
\* returns null only when no directory from startDir to the root has any.
C29_NearestConfig ==
    cliCall.fn = "findConfigFile" =>
        LET holders == Holders(Ancestors(cliCall.startDir))
        IN  IF holders = {} THEN cliResult = null
            ELSE LET nearest == CHOOSE dir \in holders :
                                    \A other \in holders : Len(other) <= Len(dir)
                     names == {i \in DOMAIN CONFIG_FILES :
                                  resolve(nearest, CONFIG_FILES[i]) \in fs}
                 IN  cliResult = resolve(nearest,
                         CONFIG_FILES[CHOOSE i \in names : \A j \in names : i <= j])

\* the pending timers of a document
PendingOf(uri) == {timer \in DOMAIN timers : armed[timer] = uri}

\* at most one timer is pending per document, and it is the one stored
OnePendingTimer ==
    /\ \A uri \in Uris : Cardinality(PendingOf(uri)) <= 1
    /\ \A uri \in DOMAIN debounceTimers :
          debounceTimers[uri] \in PendingOf(uri)
    /\ \A timer \in DOMAIN timers :
          /\ armed[timer] \in DOMAIN debounceTimers
          /\ debounceTimers[armed[timer]] = timer

\* every scan was made by the timer of the last event of its document, and
\* no timer scans twice
ScansFollowLastEvent ==
    /\ \A k \in DOMAIN scans : scans[k] \notin DOMAIN timers
    /\ \A j, k \in DOMAIN scans : scans[j] = scans[k] => j = k

\* a step that scans is the firing of the timer the last event of the
\* document armed, not before the delay of that event, and removes the
\* entry of the document
ScanAfterLastDelay ==
    scans' # scans =>
        LET timer == scans'[Len(scans')]
        IN  /\ scans' = Append(scans, timer)
            /\ timer \in DOMAIN timers
            /\ now >= timers[timer]
            /\ \A later \in (timer + 1)..Len(armed) : armed[later] # armed[timer]
            /\ armed[timer] \notin DOMAIN debounceTimers'

\* a step that arms a timer leaves the timers of the other documents pending
OthersKeptPending ==
    Len(armed') > Len(armed) =>
        \A timer \in DOMAIN timers :
            armed[timer] # armed'[Len(armed')] =>
                timer \in DOMAIN timers' /\ timers'[timer] = timers[timer]

\* C30: for each document at most one scan timer is pending at any time;
\* scheduling a scan cancels the pending timer of the document before it
\* arms a new one, and a firing timer removes its own entry before it scans,
\* so a burst of change events results in exactly one scan, after the delay
\* of the last event; timers of different documents do not cancel each
\* other.
C30_Debounce ==
    /\ [](OnePendingTimer /\ ScansFollowLastEvent)
    /\ [][OthersKeptPending /\ ScanAfterLastDelay]_vars
    /\ \A uri \in Uris :
          (uri \in DOMAIN debounceTimers) ~> (uri \notin DOMAIN debounceTimers)

\* a burst of two events of one document, with an event of another
\* document in between, has ended in one scan; the timer of the other
\* document is still pending
C30_Witness ==
    /\ scans = <<3>>
    /\ armed[1] = armed[3]
    /\ armed[2] # armed[3]
    /\ 2 \in DOMAIN timers
    /\ now >= DEBOUNCE_MS

\* the places of the parent stack whose node may be the parent of the line:
\* the line is indented deeper, and a block starter takes a section only
ParentCandidates(currentLine) ==
    {s \in DOMAIN parentStack :
        /\ currentLine.indent > heap[parentStack[s]].indent
        /\ (~currentLine.isBlockStarter \/ heap[parentStack[s]].type = "section")}

RECURSIVE FirstAppearance(_)
FirstAppearance(rs) ==
    IF rs = <<>> THEN <<>>
    ELSE LET before == FirstAppearance(SubSeq(rs, 1, Len(rs) - 1))
             id == rs[Len(rs)].id
         IN  IF id \in Range(before) THEN before ELSE Append(before, id)

\* C39: resolveRules returns rules with pairwise distinct ids; a rule that
\* a later source defines again replaces the earlier one and keeps the place
\* of the first occurrence of the id, so the ids come in the order of their
\* first appearance across defaults, configuration rules and --rules rules.
C39_FirstAppearanceOrder ==
    cliCall.fn = "resolveRules" =>
        /\ \A j, k \in DOMAIN cliResult : cliResult[j].id = cliResult[k].id => j = k
        /\ [k \in DOMAIN cliResult |-> cliResult[k].id] =
              SelectSeq(FirstAppearance(SourcesOfCall), LAMBDA id : id \notin DisabledOfCall)

\* the configuration file defines a default again after a rule of its own,
\* and the rule it defined takes the first place, where the default was
C39_Witness ==
    /\ cliCall.fn = "resolveRules"
    /\ Len(cliResult) = 3
    /\ cliResult[1].id = "NET-001"
    /\ cliResult[1].from = "config"
    /\ cliResult[1].k = 2
    /\ cliResult[2].from = "default"
    /\ cliResult[3].id = "CUSTOM-001"
    /\ cliResult[3].from = "external"

\* C38: exit status of the command line.  A scan exits with code 1 iff at
\* least one rule result has passed = false, with code 2 iff reading the file
\* throws, and otherwise with code 0; --quiet and --format change only what
\* is printed, never the exit code; with --ast no rule runs and the exit
\* code is 0.
C38_ExitStatus ==
    cliCall.fn = "scan" =>
        LET failures == \E k \in DOMAIN cliCall.results : ~cliCall.results[k].passed
        IN  /\ cliResult.exitCode = 2 <=> ~cliCall.readable
            /\ cliResult.exitCode = 1 <=> (cliCall.readable /\ ~cliCall.ast /\ failures)
            /\ cliResult.exitCode \in {0, 1, 2}
            /\ (cliCall.readable /\ cliCall.ast) => (~cliResult.ran /\ cliResult.exitCode = 0)

\* a quiet scan printed as sarif drops the passed result and exits with 1
C38_Witness ==
    /\ cliCall.fn = "scan"
    /\ cliCall.quiet
    /\ cliCall.format = "sarif"
    /\ \E k \in DOMAIN cliCall.results : cliCall.results[k].passed
    /\ cliResult.ran
    /\ cliResult.exitCode = 1
    /\ Len(cliResult.printed[2]) < Len(cliCall.results)

\* the dotted forms of the quads of the model, and the quads they stand for
DottedOf == [q \in AddressQuads \cup MaskQuads |-> dotted(q)]
IsQuad(s) ==
    \E q \in DOMAIN DottedOf : DottedOf[q] = s /\ \A i \in 1..4 : q[i] <= 255
QuadOf(s) == CHOOSE q \in DOMAIN DottedOf : DottedOf[q] = s

\* the bits of a byte that are set, and the byte of a set of bits
BitsOf(n) == {i \in 0..7 : (n \div (2 ^ i)) % 2 = 1}
RECURSIVE ByteOf(_)
ByteOf(bits) ==
    IF bits = {} THEN 0
    ELSE LET i == CHOOSE j \in bits : TRUE IN 2 ^ i + ByteOf(bits \ {i})

\* the network address and the broadcast address of an address under a mask
NetworkOf(a, m) == [i \in 1..4 |-> ByteOf(BitsOf(a[i]) \cap BitsOf(m[i]))]
BroadcastOf(a, m) ==
    [i \in 1..4 |-> ByteOf((BitsOf(a[i]) \cap BitsOf(m[i])) \cup ((0..7) \ BitsOf(m[i])))]

\* the command node the rule was run on
CheckedNode == forest[1].children[1]

\* C32: NET-IP-001 classification.  For a node 'ip address A M' with A a
\* dotted quad the rule fails iff the first octet of A is in 224..239, or A
\* is 255.255.255.255, or M is a dotted quad other than 255.255.255.255 and A
\* is the network address or the broadcast address of the subnet; with mask
\* 255.255.255.255 a unicast address passes; every failure carries ruleId
\* 'NET-IP-001' and level 'error'.
C32_IpClassification ==
    (pc = "ran" /\ rules = <<NoMulticastBroadcastIp>>
       /\ Len(CheckedNode.params) = 4 /\ IsQuad(CheckedNode.params[3])) =>
        LET A == QuadOf(CheckedNode.params[3])
            M == CheckedNode.params[4]
            hostMask == <<255, 255, 255, 255>>
            fails ==
                \/ A[1] \in 224..239
                \/ A = hostMask
                \/ /\ IsQuad(M)
                   /\ QuadOf(M) # hostMask
                   /\ A \in {NetworkOf(A, QuadOf(M)), BroadcastOf(A, QuadOf(M))}
        IN  /\ Len(results) = 1
            /\ results[1].passed <=> ~fails
            /\ ~results[1].passed =>
                  results[1].ruleId = "NET-IP-001" /\ results[1].level = "error"
            /\ results[1].nodeId = CheckedNode.id

\* a unicast address that is the network address of itself under the mask
\* 255.255.255.255 has passed
C32_Witness ==
    /\ pc = "ran"
    /\ rules = <<NoMulticastBroadcastIp>>
    /\ Len(CheckedNode.params) = 4
    /\ CheckedNode.params[3] = <<"1", "0", ".", "0", ".", "0", ".", "1">>
    /\ CheckedNode.params[4] = <<"2", "5", "5", ".", "2", "5", "5", ".", "2", "5", "5", ".", "2", "5", "5">>
    /\ results[1].passed
    /\ results[1].message = "host route"

\* C35 (as the specification states it): no scan started by a debounce timer
\* parses a document that is longer than MAX_FILE_SIZE when the scan runs,
\* also when the document grew past the limit while the timer was pending
C35_NoLargeScan ==
    [][scans' # scans => armed[scans'[Len(scans')]] \notin large]_vars

\* the version of the last scan of a document, 0 before the first
VersionOf(versions, uri) == IF uri \in DOMAIN versions THEN versions[uri] ELSE 0

\* the step increments the version of the document and publishes diagnostics
\* of the scan that took that version
ScanTakesNextVersion(uri) ==
    /\ uri \in DOMAIN scanVersions'
    /\ scanVersions'[uri] = VersionOf(scanVersions, uri) + 1
    /\ uri \in DOMAIN diagnostics'
    /\ \A k \in DOMAIN diagnostics'[uri] : diagnostics'[uri][k].scan = scanVersions'[uri]

\* the diagnostics shown for a document with a scan version come from the
\* scan that took that version, the most recently started one
DiagnosticsAreCurrent ==
    \A uri \in DOMAIN diagnostics \cap DOMAIN scanVersions :
        \A k \in DOMAIN diagnostics[uri] : diagnostics[uri][k].scan = scanVersions[uri]

\* C31: every runScan of a document increments the scan version of the
\* document and publishes only while that version is the current one, so the
\* diagnostics shown for a document never come from a scan older than the
\* most recently started scan of the document
C31_NewerScanSupersedes ==
    /\ []DiagnosticsAreCurrent
    /\ [][/\ \A timer \in due : \A failing \in QuickResults :
                timerCallback(timer, failing) => ScanTakesNextVersion(armed[timer])
          /\ \A uri \in ActiveUris : \A failing \in QuickResults :
                scanFileCommand(uri, failing) => ScanTakesNextVersion(uri)]_vars

\* a timer scanned a document and a second scan of it replaced the
\* diagnostics of the first
C31_Witness ==
    /\ scans # <<>>
    /\ "file:///r1.cfg" \in DOMAIN scanVersions
    /\ scanVersions["file:///r1.cfg"] = 2
    /\ "file:///r1.cfg" \in DOMAIN diagnostics
    /\ diagnostics["file:///r1.cfg"] = <<[line |-> 0, scan |-> 2]>>
    /\ armed[scans[1]] = "file:///r1.cfg"

\* every pending timer is the one debounceTimers holds for its document
TimersAreRegistered ==
    \A timer \in DOMAIN timers :
        /\ armed[timer] \in DOMAIN debounceTimers
        /\ debounceTimers[armed[timer]] = timer

\* after the step nothing is left of the document
NothingLeftOf(uri) ==
    /\ \A timer \in DOMAIN timers' : armed'[timer] # uri
    /\ uri \notin DOMAIN debounceTimers'
    /\ uri \notin DOMAIN scanVersions'
    /\ uri \notin DOMAIN diagnostics'

\* a step that scans a document with no pending timer, or publishes
\* diagnostics for it, is a scan command
ScanNeedsSchedule(uri) ==
    (/\ uri \notin DOMAIN debounceTimers
     /\ \/ VersionOf(scanVersions', uri) > VersionOf(scanVersions, uri)
        \/ uri \in DOMAIN diagnostics' /\ uri \notin DOMAIN diagnostics)
    => \E failing \in QuickResults : scanFileCommand(uri, failing)

\* C36: after onDocumentClose(d) there is no pending timer, no scan version
\* and no diagnostics for d, and no scan of d runs or publishes afterwards
\* unless a later event schedules one or a command scans; deactivate clears
\* the timers and the versions of all documents
C36_CloseCancels ==
    /\ []TimersAreRegistered
    /\ [][/\ \A uri \in Uris : closeDocument(uri) => NothingLeftOf(uri)
          /\ \A uri \in Uris : ScanNeedsSchedule(uri)
          /\ deactivate => timers' = <<>> /\ debounceTimers' = <<>> /\ scanVersions' = <<>>]_vars

\* the first document was scanned by a timer, saved again and closed with its
\* second timer pending, while the timer of the second document stays pending
C36_Witness ==
    /\ armed = <<"file:///r1.cfg", "file:///r1.cfg", "file:///r2.txt">>
    /\ scans = <<1>>
    /\ DOMAIN timers = {3}
    /\ "file:///r1.cfg" \notin DOMAIN scanVersions \cup DOMAIN diagnostics

\* the diagnostics a document has before and after a step
DiagnosticsBefore(uri) == IF uri \in DOMAIN diagnostics THEN diagnostics[uri] ELSE <<>>
DiagnosticsAfter(uri) == IF uri \in DOMAIN diagnostics' THEN diagnostics'[uri] ELSE <<>>

\* the indices of the diagnostics that lie before startLine or after endLine
Outside(list, startLine, endLine) ==
    {k \in DOMAIN list : list[k].line < startLine \/ list[k].line > endLine}

\* the indices of the failed results whose line exists in the document
Placed(scanned, startLine) ==
    {k \in DOMAIN scanned : ~scanned[k].passed /\ startLine + scanned[k].startLine < lineCount}

\* the step keeps, in their order, the diagnostics outside the selection,
\* removes those on a selected line, and adds behind them one diagnostic for
\* each failed result on a line that exists, and leaves other documents alone
SelectionFrame(uri, startLine, endLine, scanned) ==
    LET before == DiagnosticsBefore(uri)
        after == DiagnosticsAfter(uri)
        kept == Cardinality(Outside(before, startLine, endLine))
        added == Cardinality(Placed(scanned, startLine))
    IN  /\ Len(after) = kept + added
        /\ \A k \in Outside(before, startLine, endLine) :
              after[Cardinality({j \in Outside(before, startLine, endLine) : j <= k})] = before[k]
        /\ \A k \in Placed(scanned, startLine) :
              after[kept + Cardinality({j \in Placed(scanned, startLine) : j <= k})]
                  = [line |-> startLine + scanned[k].startLine, scan |-> 0]
        /\ \A other \in Uris \ {uri} :
              /\ other \in DOMAIN diagnostics' <=> other \in DOMAIN diagnostics
              /\ DiagnosticsAfter(other) = DiagnosticsBefore(other)

\* C37: cmdScanSelection leaves unchanged every diagnostic of the document
\* before the first or after the last selected line, removes every
\* diagnostic on a selected line, adds only diagnostics for failed results,
\* each on line selection.start.line + result.loc.startLine and only when the
\* document has that line, and leaves the diagnostics of other documents
C37_SelectionFrame ==
    [][\A uri \in ActiveUris : \A startLine \in 0..(lineCount - 1) :
          \A endLine \in startLine..(lineCount - 1) : \A scanned \in SelectionResults :
              selectionScan(uri, startLine, endLine, scanned)
                  => SelectionFrame(uri, startLine, endLine, scanned)]_vars

\* a scan of the first line of a document replaced the diagnostic of the file
\* scan there and kept the one behind the selection, while the other document
\* keeps its own
C37_Witness ==
    /\ DOMAIN diagnostics = ActiveUris
    /\ diagnostics["file:///r1.cfg"] = <<[line |-> 1, scan |-> 0], [line |-> 0, scan |-> 0]>>
    /\ diagnostics["file:///r3.json"] = <<[line |-> 0, scan |-> 1]>>
====
